---- MODULE Spec2Model ----
(***************************************************************************)
(* ConcurrentOption<T> of orx-concurrent-option: an atomic tri-state tag   *)
(* (`state`) guarding one possibly-uninitialized storage cell (`value`).   *)
(* Every &self operation is modelled at the granularity of its atomic      *)
(* accesses to the tag and of its accesses to the cell.                    *)
(***************************************************************************)
EXTENDS Integers, FiniteSets, Sequences, Bags, TLC

(* ---------------- states.rs ---------------- *)
NONE == 0
RESERVED == 1
SOME == 2

ORDER_LOAD == "Acquire"
\* a variant: ORDER_STORE weakened to Ordering::Relaxed
ORDER_STORE_Relaxed == "Relaxed"
ORDER_STORE == "SeqCst"

(* core::sync::atomic::Ordering, as far as the protocol uses it *)
Orderings == {"Relaxed", "Acquire", "Release", "SeqCst"}
IsAcquire(o) == o \in {"Acquire", "SeqCst"}
IsRelease(o) == o \in {"Release", "SeqCst"}

(* orderings of the compare_exchange calls of Handle / MutHandle *)
\* a variant: the entering compare_exchange succeeding with Ordering::Relaxed
HandleGetRelaxed == "Relaxed"
HandleGetOrder == "Acquire"
\* the failure ordering of the compare_exchange calls of Handle / MutHandle
HandleFailureOrder == "Relaxed"
\* a variant: the handle's drop publishing with Ordering::Relaxed
HandleDropRelaxed == "Relaxed"
HandleDropOrder == "Release"

(* ---------------- bounds ---------------- *)
NumThreads == 2          \* threads sharing the option
MaxCalls == 2            \* calls made in all by the threads of the concurrent program
NumInitThreads == 3      \* threads of the init-once scenario
MaxInitCalls == 3        \* calls made in all in the init-once scenario
MaxReplaceCalls == 3     \* calls made in all by the replacers
MaxSeqCalls == 3         \* calls made by the single-threaded program
MaxCalmCalls == 2        \* calls made in all by the program whose closures return
MaxSpinCalls == 2        \* calls made in all by the program of spinning calls
MaxArmCalls == 2         \* calls made in all by the program of two-armed calls
MaxKeepCalls == 2         \* calls made in all by the program that never empties the option
MaxTakeCalls == 3         \* calls made in all by the takers and their readers
MaxUncheckedCalls == 3    \* calls made in all around initialize_unchecked
MaxProbeCalls == 2        \* calls made in all by the probing program
MaxOrderCalls == 3        \* calls made in all by the program of writers and entrants
MaxJoinedCalls == 2       \* calls made in all before the option is dropped
MaxOwnedCalls == 2        \* calls made in all on the option whose values are counted
MaxReaderCalls == 3       \* calls made in all by the readers of an option that stays Some
MaxSafeCalls == 2        \* calls made in all by the program of safe calls

Threads == 1..NumThreads
OnceThreads == 1..NumInitThreads
AllThreads == Threads \cup OnceThreads

(* ---------------- values ---------------- *)
(* A value of T: `id` is the identity of the object that is moved around    *)
(* (fresh for every argument), `x` its content, which closures may change.  *)
Val(i, c) == [id |-> i, x |-> c]
Uninit == Val(0, 0)           \* MaybeUninit::uninit(): nothing was ever written
Torn == Val(0, 1)             \* what a racing (unsynchronised) read may produce
InitialValue == Val(1, 0)     \* the v of ConcurrentOption::some(v)

(* tests/concurrent_init_and_read.rs: the payloads of the init-once scenario *)
Seven == 7
Other == 1000000

(* results of calls *)
Res(k, v) == [kind |-> k, v |-> v]
Pending == Res("pending", Uninit)
ResNone == Res("None", Uninit)
ResSome(v) == Res("Some", v)
ResTrue == Res("true", Uninit)
ResFalse == Res("false", Uninit)
ResPanic == Res("panic", Uninit)
ResRef == Res("ref", Uninit)      \* Some(pointer) / a reference into the cell
ResUnit == Res("unit", Uninit)    \* ()
ResState(s) == Res("State", Val(0, s))   \* State::new(s)
ResBool(b) == IF b THEN ResTrue ELSE ResFalse

VARIABLES
    state,          \* ConcurrentOption::state : AtomicU8
    value,          \* ConcurrentOption::value : the bits of the cell
    live,           \* whether the cell holds a value that was not moved out
    pc,             \* per thread: where it is inside its current call
    op,             \* per thread: the method it is calling
    arg,            \* per thread: the value argument of the call
    order,          \* per thread: the Ordering argument of a *_with_order call
    initial_state,  \* per thread: initial_state of the handle it asks for
    success_state,  \* per thread: success_state of the handle it holds
    out,            \* per thread: the output its current call will return
    ret,            \* per thread: the result of its last call
    spun,           \* per thread: its spin loop has observed RESERVED in this call
    spins,          \* per thread: parity of the loop iterations that found RESERVED
    fcalls,         \* per thread: closure invocations made by the current call
    verdict,        \* per thread: what the predicate of its take_if call answered
    calls,          \* number of calls invoked so far
    holders,        \* threads between their entering CAS and their publishing CAS
    seen,           \* threads whose view contains the last write of the cell
    pub,            \* the tag's release sequence carries the last write of the cell
    returned,       \* bag of the values handed back to callers
    dropped,        \* bag of the values whose destructor ran
    inited,         \* the initialize_if_none calls that returned true: thread, argument
    mode,           \* the program run on the option (fixed at construction)
    ctor,           \* the option as constructed: some(v) or none()
    owner,          \* the option itself: "alive", "dropped", or "panicked" in its drop
    hist            \* sequential program: the calls completed so far, in order

vars == <<state, value, live, pc, op, arg, order, initial_state, success_state,
          out, ret, spun, spins, fcalls, verdict, calls, holders, seen, pub, returned, dropped, inited,
          mode, ctor, owner, hist>>

shared == <<state, value, live, holders, seen, pub>>
callLocals == <<arg, initial_state, success_state, out, spun, spins, fcalls, verdict>>
ghost == <<returned, dropped, inited>>
fixed == <<mode, ctor, owner>>

(* ---------------- new.rs ---------------- *)
\* ConcurrentOption::some(value)
some(v) == [state |-> SOME, value |-> v, live |-> TRUE]
\* ConcurrentOption::none()
none == [state |-> NONE, value |-> Uninit, live |-> FALSE]

InitLocals ==
    /\ pc = [t \in AllThreads |-> "idle"]
    /\ op = [t \in AllThreads |-> "-"]
    /\ arg = [t \in AllThreads |-> Uninit]
    /\ order = [t \in AllThreads |-> "Relaxed"]
    /\ initial_state = [t \in AllThreads |-> NONE]
    /\ success_state = [t \in AllThreads |-> NONE]
    /\ out = [t \in AllThreads |-> Pending]
    /\ ret = [t \in AllThreads |-> Pending]
    /\ spun = [t \in AllThreads |-> FALSE]
    /\ spins = [t \in AllThreads |-> 0]
    /\ fcalls = [t \in AllThreads |-> 0]
    /\ verdict = [t \in AllThreads |-> "-"]
    /\ calls = 0
    /\ holders = {}
    /\ seen = AllThreads
    /\ pub = TRUE
    /\ returned = EmptyBag
    /\ dropped = EmptyBag
    /\ inited = {}
    /\ hist = <<>>

InitSlot(o) ==
    /\ state = o.state
    /\ value = o.value
    /\ live = o.live
    /\ ctor = o
    /\ owner = "alive"

Init ==
    /\ \E o \in {none, some(InitialValue)} : InitSlot(o)
    /\ InitLocals
    /\ mode = "concurrent"

(* ---------------- memory-order bookkeeping ---------------- *)
\* an acquire (or stronger) read of the tag makes the cell's last write visible
\* when the tag carries it
AcquireView(t, o) == IF IsAcquire(o) /\ pub THEN seen \cup {t} ELSE seen
\* a read-modify-write continues the release sequence; a release publishes the
\* writer's own view
PublishRmw(t, o) == pub \/ (IsRelease(o) /\ t \in seen)
\* what a read of the cell by thread t can produce
CellRead(t) == IF t \in seen THEN {value} ELSE {value, Torn}

\* the fresh argument of the call being invoked
FreshArg(c) == Val(calls + 2, c)

\* the locals of a call end with it
EndCall(t) ==
    /\ arg' = [arg EXCEPT ![t] = Uninit]
    /\ initial_state' = [initial_state EXCEPT ![t] = NONE]
    /\ success_state' = [success_state EXCEPT ![t] = NONE]
    /\ out' = [out EXCEPT ![t] = Pending]
    /\ spun' = [spun EXCEPT ![t] = FALSE]
    /\ spins' = [spins EXCEPT ![t] = 0]
    /\ fcalls' = [fcalls EXCEPT ![t] = 0]
    /\ verdict' = [verdict EXCEPT ![t] = "-"]

\* the sequential program's record of a completed call: the method, its result
\* and the tag it left
Completed(t, r) ==
    hist' = IF mode = "sequential"
            THEN Append(hist, [op |-> op[t], ret |-> r, state |-> state'])
            ELSE hist

\* a call returns: the result is recorded and the thread is between calls
Return(t, r) ==
    /\ pc' = [pc EXCEPT ![t] = "idle"]
    /\ ret' = [ret EXCEPT ![t] = r]
    /\ returned' = IF r.kind = "Some" THEN returned (+) SetToBag({r.v}) ELSE returned
    /\ EndCall(t)
    /\ Completed(t, r)

\* the thread unwinds out of its call and ends
Unwound(t) ==
    /\ pc' = [pc EXCEPT ![t] = "panicked"]
    /\ ret' = [ret EXCEPT ![t] = ResPanic]
    /\ UNCHANGED returned
    /\ EndCall(t)
    /\ Completed(t, ResPanic)

(* ---------------- the calls ---------------- *)
GuardOps == {"initialize_if_none", "update_if_some", "take", "take_if", "replace",
             "insert", "get_or_insert_with", "get_raw", "get_raw_mut", "as_ref"}
TwoArmed == {"replace", "insert", "get_or_insert_with"}
TakesValue == {"initialize_if_none", "initialize_unchecked", "replace", "insert",
               "get_or_insert_with"}

\* where a call starts, and the (initial_state, success_state) it first asks for
\* a variant: initialize_if_none entering through the spinning entry too
EntryPcSpinning(o) ==
    CASE o = "initialize_unchecked" -> "iu_write"
      [] o = "take_if" -> "tif_cas"
      [] o = "as_ref" -> "mspin"
      [] o \in {"as_ref_with_order", "get_raw_with_order", "get_raw_mut_with_order"} -> "load"
      [] o \in {"is_some_with_order", "is_none_with_order", "state"} -> "probe"
      [] OTHER -> "spin"
EntryPc(o) ==
    CASE o = "initialize_if_none" -> "get"
      [] o = "initialize_unchecked" -> "iu_write"
      [] o = "take_if" -> "tif_cas"
      [] o = "as_ref" -> "mspin"
      [] o \in {"as_ref_with_order", "get_raw_with_order", "get_raw_mut_with_order"} -> "load"
      [] o \in {"is_some_with_order", "is_none_with_order", "state"} -> "probe"
      [] OTHER -> "spin"
\* a variant: every call, initialize_if_none too, asking for a handle from SOME
EntryInitialSome(o) == SOME
EntryInitial(o) == IF o = "initialize_if_none" THEN NONE ELSE SOME
\* a variant: the handle of replace publishing NONE, as take's does
EntrySuccessReplaceNone(o) == IF o \in {"take", "replace"} THEN NONE ELSE SOME
\* a variant: every handle, take's too, publishing SOME
EntrySuccessSome(o) == SOME
EntrySuccess(o) == IF o = "take" THEN NONE ELSE SOME

Invoke(t, ops, payloads, orders, bound) ==
    /\ pc[t] = "idle"
    /\ owner = "alive"
    /\ calls < bound
    /\ \E o \in ops, c \in payloads, ord \in orders :
        /\ op' = [op EXCEPT ![t] = o]
        /\ arg' = [arg EXCEPT ![t] = IF o \in TakesValue THEN FreshArg(c) ELSE Uninit]
        /\ order' = [order EXCEPT ![t] = ord]
        /\ pc' = [pc EXCEPT ![t] = EntryPc(o)]
        /\ initial_state' = [initial_state EXCEPT ![t] = EntryInitial(o)]
        /\ success_state' = [success_state EXCEPT ![t] = EntrySuccess(o)]
    /\ out' = [out EXCEPT ![t] = Pending]
    /\ ret' = [ret EXCEPT ![t] = Pending]
    /\ spun' = [spun EXCEPT ![t] = FALSE]
    /\ spins' = [spins EXCEPT ![t] = 0]
    /\ fcalls' = [fcalls EXCEPT ![t] = 0]
    /\ verdict' = [verdict EXCEPT ![t] = "-"]
    /\ calls' = calls + 1
    /\ UNCHANGED <<shared, ghost, fixed, hist>>

(* ---------------- handle.rs ---------------- *)
\* a variant: an unconditional swap, succeeding whatever the tag is
compare_exchange_blind(expected) == TRUE

\* AtomicU8::compare_exchange(expected, new, ..) succeeds when the tag is `expected`
compare_exchange_ok(expected) == state = expected

\* a variant: an entry that stores the handle's success_state at once
EnterDirect(t, o) ==
    /\ state' = success_state[t]
    /\ holders' = holders \cup {t}
    /\ seen' = AcquireView(t, o)
    /\ UNCHANGED <<value, live, pub>>

\* the successful compare_exchange(initial_state, RESERVED, o, _)
Enter(t, o) ==
    /\ state' = RESERVED
    /\ holders' = holders \cup {t}
    /\ seen' = AcquireView(t, o)
    /\ UNCHANGED <<value, live, pub>>

\* a variant: initialize_if_none reporting success from its `None =>` arm too
MissResultTrue(o) == IF o = "initialize_if_none" THEN ResTrue ELSE ResNone

\* the value a call returns when it finds no value (its `None =>` arm)
MissResult(o) ==
    CASE o = "initialize_if_none" -> ResFalse
      [] o = "update_if_some" -> ResTrue
      [] OTHER -> ResNone

\* a variant: an entry that tries again as long as it finds RESERVED
Handle_get_waiting(t) ==
    /\ pc[t] = "get"
    /\ IF compare_exchange_ok(initial_state[t])
       THEN /\ Enter(t, HandleGetOrder)
            /\ pc' = [pc EXCEPT ![t] = "body"]
            /\ UNCHANGED <<ret, returned, callLocals, hist>>
       ELSE IF state = RESERVED
       THEN /\ spins' = [spins EXCEPT ![t] = 1 - @]
            /\ UNCHANGED <<shared, pc, ret, returned, arg, initial_state, success_state,
                           out, spun, fcalls, verdict, hist>>
       ELSE /\ UNCHANGED shared
            /\ Return(t, MissResult(op[t]))
    /\ UNCHANGED <<op, order, calls, dropped, inited, fixed>>

\* Handle::get: one compare_exchange, no retry
Handle_get(t) ==
    /\ pc[t] = "get"
    /\ IF compare_exchange_ok(initial_state[t])
       THEN /\ Enter(t, HandleGetOrder)
            /\ pc' = [pc EXCEPT ![t] = "body"]
            /\ UNCHANGED <<ret, returned, callLocals, hist>>
       ELSE /\ UNCHANGED shared
            /\ Return(t, MissResult(op[t]))
    /\ UNCHANGED <<op, order, calls, dropped, inited, fixed>>

\* a variant: get_or_insert_with going on to call f from its SOME entry too
AfterEnterCallingF(t) ==
    IF op[t] \in {"get_raw", "get_raw_mut", "as_ref"} THEN "drop" ELSE "body"

\* where a call goes once its spinning entry has won the compare_exchange
AfterEnter(t) ==
    IF \/ op[t] \in {"get_raw", "get_raw_mut", "as_ref"}
       \/ op[t] = "get_or_insert_with" /\ initial_state[t] = SOME
    THEN "drop" ELSE "body"

\* a variant: a two-armed call that keeps asking for the same entry
SpinIterationOneArm(t) ==
    /\ IF compare_exchange_ok(initial_state[t])
       THEN /\ Enter(t, HandleGetOrder)
            /\ pc' = [pc EXCEPT ![t] = AfterEnter(t)]
            /\ out' = [out EXCEPT ![t] = IF AfterEnter(t) = "drop" THEN ResRef ELSE Pending]
            /\ UNCHANGED <<ret, returned, arg, initial_state, success_state, spun, spins,
                           fcalls, verdict, hist>>
       ELSE IF state = RESERVED \/ op[t] \in TwoArmed
       THEN /\ spun' = [spun EXCEPT ![t] = TRUE]
            /\ spins' = [spins EXCEPT ![t] = 1 - @]
            /\ UNCHANGED <<shared, pc, ret, returned, arg, initial_state, success_state,
                           out, fcalls, verdict, hist>>
       ELSE /\ UNCHANGED shared
            /\ Return(t, MissResult(op[t]))
    /\ UNCHANGED <<op, order, calls, dropped, inited, fixed>>

\* a variant: a loop that gives up on RESERVED as on any other mismatch
SpinIterationOnce(t) ==
    /\ IF compare_exchange_ok(initial_state[t])
       THEN /\ Enter(t, HandleGetOrder)
            /\ pc' = [pc EXCEPT ![t] = AfterEnter(t)]
            /\ out' = [out EXCEPT ![t] = IF AfterEnter(t) = "drop" THEN ResRef ELSE Pending]
            /\ UNCHANGED <<ret, returned, arg, initial_state, success_state, spun, spins,
                           fcalls, verdict, hist>>
       ELSE /\ UNCHANGED shared
            /\ Return(t, MissResult(op[t]))
    /\ UNCHANGED <<op, order, calls, dropped, inited, fixed>>

\* a variant: a loop that retries on every mismatch, NONE included
SpinIterationRetry(t) ==
    /\ IF compare_exchange_ok(initial_state[t])
       THEN /\ Enter(t, HandleGetOrder)
            /\ pc' = [pc EXCEPT ![t] = AfterEnter(t)]
            /\ out' = [out EXCEPT ![t] = IF AfterEnter(t) = "drop" THEN ResRef ELSE Pending]
            /\ UNCHANGED <<spun, spins>>
       ELSE /\ spun' = [spun EXCEPT ![t] = TRUE]
            /\ spins' = [spins EXCEPT ![t] = 1 - @]
            /\ UNCHANGED <<shared, pc, out>>
    /\ UNCHANGED <<ret, returned, arg, initial_state, success_state, fcalls, verdict, hist>>
    /\ UNCHANGED <<op, order, calls, dropped, inited, fixed>>

\* one iteration of the loop of Handle::spin_get / MutHandle::spin_get
SpinIteration(t) ==
    /\ IF compare_exchange_ok(initial_state[t])
       THEN /\ Enter(t, HandleGetOrder)
            /\ pc' = [pc EXCEPT ![t] = AfterEnter(t)]
            /\ out' = [out EXCEPT ![t] = IF AfterEnter(t) = "drop" THEN ResRef ELSE Pending]
            /\ UNCHANGED <<ret, returned, arg, initial_state, success_state, spun, spins,
                           fcalls, verdict, hist>>
       ELSE IF state = RESERVED
       THEN /\ spun' = [spun EXCEPT ![t] = TRUE]
            /\ spins' = [spins EXCEPT ![t] = 1 - @]
            /\ UNCHANGED <<shared, pc, ret, returned, arg, initial_state, success_state,
                           out, fcalls, verdict, hist>>
       ELSE IF op[t] \in TwoArmed
       THEN \* `if let Some(_handle) = ...` fails: the loop goes on to the other arm
            /\ initial_state' = [initial_state EXCEPT ![t] = IF @ = SOME THEN NONE ELSE SOME]
            /\ UNCHANGED <<shared, pc, ret, returned, arg, success_state, out, spun, spins,
                           fcalls, verdict, hist>>
       ELSE /\ UNCHANGED shared
            /\ Return(t, MissResult(op[t]))
    /\ UNCHANGED <<op, order, calls, dropped, inited, fixed>>

Handle_spin_get(t) ==
    /\ pc[t] = "spin"
    /\ SpinIteration(t)

\* a variant: a handle whose drop also empties the cell
PublishClearing(t, o) ==
    /\ state' = success_state[t]
    /\ holders' = holders \ {t}
    /\ pub' = PublishRmw(t, o)
    /\ live' = FALSE
    /\ UNCHANGED <<value, seen>>

\* a variant: a handle putting back the tag it found
PublishRestoring(t, o) ==
    /\ state' = initial_state[t]
    /\ holders' = holders \ {t}
    /\ pub' = PublishRmw(t, o)
    /\ UNCHANGED <<value, live, seen>>

\* the compare_exchange(RESERVED, success_state, o, _).expect(..) closing a transition
Publish(t, o) ==
    /\ state' = success_state[t]
    /\ holders' = holders \ {t}
    /\ pub' = PublishRmw(t, o)
    /\ UNCHANGED <<value, live, seen>>

\* a variant: a handle that is forgotten, the call returning with the tag
\* left RESERVED
Handle_drop_leaking(t) ==
    /\ pc[t] = "drop"
    /\ op[t] # "as_ref"
    /\ UNCHANGED <<shared, inited>>
    /\ Return(t, out[t])
    /\ UNCHANGED <<op, order, calls, dropped, fixed>>

\* Drop for Handle, at the end of the call
Handle_drop(t) ==
    /\ pc[t] = "drop"
    /\ op[t] # "as_ref"
    /\ IF compare_exchange_ok(RESERVED)
       THEN /\ Publish(t, HandleDropOrder)
            /\ Return(t, out[t])
            /\ inited' = IF op[t] = "initialize_if_none" THEN inited \cup {[thread |-> t, v |-> arg[t]]} ELSE inited
       ELSE /\ UNCHANGED <<shared, inited>>
            /\ Unwound(t)
    /\ UNCHANGED <<op, order, calls, dropped, fixed>>

\* a variant: the unwinding leaking the handle instead of dropping it
Handle_forget_unwind(t) ==
    /\ pc[t] = "unwind"
    /\ UNCHANGED shared
    /\ Unwound(t)
    /\ UNCHANGED <<op, order, calls, dropped, inited, fixed>>

\* Drop for Handle, while a panic of the closure unwinds the call
Handle_drop_unwind(t) ==
    /\ pc[t] = "unwind"
    /\ IF compare_exchange_ok(RESERVED)
       THEN Publish(t, HandleDropOrder)
       ELSE UNCHANGED shared
    /\ Unwound(t)
    /\ UNCHANGED <<op, order, calls, dropped, inited, fixed>>

(* ---------------- mut_handle.rs ---------------- *)
MutHandle_spin_get(t) ==
    /\ pc[t] = "mspin"
    /\ SpinIteration(t)

\* a variant: a MutHandle that is forgotten, as_ref returning with the tag
\* left RESERVED
MutHandle_forget(t) ==
    /\ pc[t] = "drop"
    /\ op[t] = "as_ref"
    /\ UNCHANGED shared
    /\ Return(t, out[t])
    /\ UNCHANGED <<op, order, calls, dropped, inited, fixed>>

MutHandle_drop(t) ==
    /\ pc[t] = "drop"
    /\ op[t] = "as_ref"
    /\ IF compare_exchange_ok(RESERVED)
       THEN /\ Publish(t, HandleDropOrder)
            /\ Return(t, out[t])
       ELSE /\ UNCHANGED shared
            /\ Unwound(t)
    /\ UNCHANGED <<op, order, calls, dropped, inited, fixed>>

(* ---------------- accesses to the cell ---------------- *)
\* MaybeUninit::write / mem::replace storing v: a write of the cell by thread t
WriteCell(t, v) ==
    /\ value' = v
    /\ live' = TRUE
    /\ seen' = {t}
    /\ pub' = FALSE
    /\ UNCHANGED <<state, holders>>

\* whether a closure may panic: the callers of the calm program pass closures
\* that return
PanicChoices == IF mode = "calm" THEN {FALSE} ELSE BOOLEAN

\* the closures of the model change the content by d (0: the closure only reads)
Mutated(v, d) == Val(v.id, v.x + d)

\* a closure working on &mut T: reads the cell and, when d > 0, writes it
MutateCell(t, v, d) ==
    /\ value' = Mutated(v, d)
    /\ seen' = IF d > 0 THEN {t} ELSE seen
    /\ pub' = IF d > 0 THEN FALSE ELSE pub
    /\ UNCHANGED <<state, holders>>

\* the locals a step inside a call leaves alone
StepFrame == <<op, arg, order, initial_state, spun, spins, verdict, calls, ret, returned,
               fixed, hist>>

(* ---------------- concurrent.rs ---------------- *)
\* a variant: initialize_if_none writing the cell before it asks for the handle
initialize_if_none_write_early(t) ==
    /\ pc[t] \in {"get", "body"} /\ op[t] = "initialize_if_none"
    /\ WriteCell(t, arg[t])
    /\ pc' = [pc EXCEPT ![t] = IF @ = "get" THEN "get" ELSE "drop"]
    /\ out' = [out EXCEPT ![t] = IF pc[t] = "get" THEN @ ELSE ResTrue]
    /\ UNCHANGED <<StepFrame, success_state, fcalls, dropped, inited>>

\* initialize_if_none, line 108: write(value) under the handle
initialize_if_none_write(t) ==
    /\ pc[t] = "body" /\ op[t] = "initialize_if_none"
    /\ WriteCell(t, arg[t])
    /\ pc' = [pc EXCEPT ![t] = "drop"]
    /\ out' = [out EXCEPT ![t] = ResTrue]
    /\ UNCHANGED <<StepFrame, success_state, fcalls, dropped, inited>>

\* initialize_unchecked, line 220: write(value), without a handle
initialize_unchecked_write(t) ==
    /\ pc[t] = "iu_write" /\ op[t] = "initialize_unchecked"
    /\ WriteCell(t, arg[t])
    /\ pc' = [pc EXCEPT ![t] = "iu_store"]
    /\ UNCHANGED <<StepFrame, success_state, out, fcalls, dropped, inited>>

\* a variant: initialize_unchecked storing its tag with Ordering::Relaxed
UncheckedStoreRelaxed == "Relaxed"

\* the ordering of initialize_unchecked's store
UncheckedStoreOrder == ORDER_STORE

\* initialize_unchecked, line 221: state.store(SOME, ORDER_STORE)
initialize_unchecked_store(t) ==
    /\ pc[t] = "iu_store" /\ op[t] = "initialize_unchecked"
    /\ state' = SOME
    /\ pub' = (IsRelease(UncheckedStoreOrder) /\ t \in seen)
    /\ UNCHANGED <<value, live, holders, seen>>
    /\ Return(t, ResUnit)
    /\ UNCHANGED <<op, order, calls, dropped, inited, fixed>>

\* update_if_some, lines 248-250: f is called on the value
update_if_some_call(t) ==
    /\ pc[t] = "body" /\ op[t] = "update_if_some"
    /\ pc' = [pc EXCEPT ![t] = "closure"]
    /\ fcalls' = [fcalls EXCEPT ![t] = @ + 1]
    /\ UNCHANGED <<shared, StepFrame, success_state, out, dropped, inited>>

\* update_if_some: f runs to its end, or panics
update_if_some_f(t) ==
    /\ pc[t] = "closure" /\ op[t] = "update_if_some"
    /\ \E v \in CellRead(t), d \in {0, 1}, panics \in PanicChoices :
        /\ MutateCell(t, v, d)
        /\ pc' = [pc EXCEPT ![t] = IF panics THEN "unwind" ELSE "drop"]
    /\ out' = [out EXCEPT ![t] = ResTrue]
    /\ UNCHANGED <<live, StepFrame, success_state, fcalls, dropped, inited>>

\* a variant: a take that copies the value and leaves it in the cell
take_read_copying(t) ==
    /\ pc[t] = "body" /\ op[t] = "take"
    /\ \E v \in CellRead(t) : out' = [out EXCEPT ![t] = ResSome(v)]
    /\ pc' = [pc EXCEPT ![t] = "drop"]
    /\ UNCHANGED <<shared, StepFrame, success_state, fcalls, dropped, inited>>

\* a variant: a take that also stores NONE into the tag while it holds the handle
take_read_storing(t) ==
    /\ pc[t] = "body" /\ op[t] = "take"
    /\ \E v \in CellRead(t) : out' = [out EXCEPT ![t] = ResSome(v)]
    /\ live' = FALSE
    /\ state' = NONE
    /\ pc' = [pc EXCEPT ![t] = "drop"]
    /\ UNCHANGED <<value, holders, seen, pub, StepFrame, success_state, fcalls,
                   dropped, inited>>

\* take, lines 281-282: assume_init_read moves the value out
take_read(t) ==
    /\ pc[t] = "body" /\ op[t] = "take"
    /\ \E v \in CellRead(t) : out' = [out EXCEPT ![t] = ResSome(v)]
    /\ live' = FALSE
    /\ pc' = [pc EXCEPT ![t] = "drop"]
    /\ UNCHANGED <<state, value, holders, seen, pub, StepFrame, success_state, fcalls,
                   dropped, inited>>

\* a variant: take_if entering from NONE as well as from SOME
take_if_cas_any(t) ==
    /\ pc[t] = "tif_cas"
    /\ IF compare_exchange_ok(SOME) \/ compare_exchange_ok(NONE)
       THEN /\ Enter(t, ORDER_LOAD)
            /\ pc' = [pc EXCEPT ![t] = "body"]
            /\ UNCHANGED <<ret, returned, callLocals, hist>>
       ELSE /\ spun' = [spun EXCEPT ![t] = TRUE]
            /\ spins' = [spins EXCEPT ![t] = 1 - @]
            /\ seen' = AcquireView(t, ORDER_LOAD)
            /\ UNCHANGED <<state, value, live, holders, pub, pc, ret, returned, arg,
                           initial_state, success_state, out, fcalls, verdict, hist>>
    /\ UNCHANGED <<op, order, calls, dropped, inited, fixed>>

\* take_if, lines 319-322 and 344-347: its own compare_exchange loop
take_if_cas(t) ==
    /\ pc[t] = "tif_cas"
    /\ IF compare_exchange_ok(SOME)
       THEN /\ Enter(t, ORDER_LOAD)
            /\ pc' = [pc EXCEPT ![t] = "body"]
            /\ UNCHANGED <<ret, returned, callLocals, hist>>
       ELSE IF state = RESERVED
       THEN /\ spun' = [spun EXCEPT ![t] = TRUE]
            /\ spins' = [spins EXCEPT ![t] = 1 - @]
            /\ seen' = AcquireView(t, ORDER_LOAD)
            /\ UNCHANGED <<state, value, live, holders, pub, pc, ret, returned, arg,
                           initial_state, success_state, out, fcalls, verdict, hist>>
       ELSE /\ seen' = AcquireView(t, ORDER_LOAD)
            /\ UNCHANGED <<state, value, live, holders, pub>>
            /\ Return(t, ResNone)
    /\ UNCHANGED <<op, order, calls, dropped, inited, fixed>>

\* take_if, lines 325-327: the predicate is called on the value
take_if_call(t) ==
    /\ pc[t] = "body" /\ op[t] = "take_if"
    /\ pc' = [pc EXCEPT ![t] = "closure"]
    /\ fcalls' = [fcalls EXCEPT ![t] = @ + 1]
    /\ UNCHANGED <<shared, StepFrame, success_state, out, dropped, inited>>

\* a variant: take_if publishing NONE whatever the predicate answered
TakeIfSuccessStateNone(output) == NONE

\* take_if, lines 332-335: the tag to publish follows the output
TakeIfSuccessState(output) == IF output.kind = "Some" THEN NONE ELSE SOME

\* take_if, lines 327-335: the predicate returns its verdict (or panics: no
\* guard is held, the unwinding publishes nothing)
take_if_predicate(t) ==
    /\ pc[t] = "closure" /\ op[t] = "take_if"
    /\ \E v \in CellRead(t), d \in {0, 1}, answer \in BOOLEAN, panics \in PanicChoices :
        /\ MutateCell(t, v, d)
        /\ IF panics
           THEN /\ UNCHANGED live
                /\ Unwound(t)
           ELSE LET output == IF answer THEN ResSome(Mutated(v, d)) ELSE ResNone
                IN  /\ out' = [out EXCEPT ![t] = output]
                    /\ verdict' = [verdict EXCEPT ![t] = IF answer THEN "true" ELSE "false"]
                    /\ live' = IF answer THEN FALSE ELSE live
                    /\ success_state' = [success_state EXCEPT ![t] = TakeIfSuccessState(output)]
                    /\ pc' = [pc EXCEPT ![t] = "tif_pub"]
                    /\ UNCHANGED <<ret, returned, arg, initial_state, spun, spins, fcalls, hist>>
    /\ UNCHANGED <<op, order, calls, dropped, inited, fixed>>

\* take_if, lines 336-342: compare_exchange(RESERVED, success_state).expect(..)
take_if_publish(t) ==
    /\ pc[t] = "tif_pub"
    /\ IF compare_exchange_ok(RESERVED)
       THEN /\ Publish(t, ORDER_STORE)
            /\ Return(t, out[t])
       ELSE /\ UNCHANGED shared
            /\ Unwound(t)
    /\ UNCHANGED <<op, order, calls, dropped, inited, fixed>>

\* a variant: replace writing first and handing back what the cell then holds
replace_value_swapped(t) ==
    /\ pc[t] = "body" /\ op[t] = "replace"
    /\ out' = [out EXCEPT ![t] = IF initial_state[t] = SOME THEN ResSome(arg[t]) ELSE ResNone]
    /\ WriteCell(t, arg[t])
    /\ pc' = [pc EXCEPT ![t] = "drop"]
    /\ UNCHANGED <<StepFrame, success_state, fcalls, dropped, inited>>

\* a variant: replace overwriting the cell without handing the old value back
replace_value_lost(t) ==
    /\ pc[t] = "body" /\ op[t] = "replace"
    /\ out' = [out EXCEPT ![t] = ResNone]
    /\ WriteCell(t, arg[t])
    /\ pc' = [pc EXCEPT ![t] = "drop"]
    /\ UNCHANGED <<StepFrame, success_state, fcalls, dropped, inited>>

\* replace, lines 374-376 (entered from SOME) and 380-382 (entered from NONE)
replace_value(t) ==
    /\ pc[t] = "body" /\ op[t] = "replace"
    /\ IF initial_state[t] = SOME
       THEN \E old \in CellRead(t) : out' = [out EXCEPT ![t] = ResSome(old)]
       ELSE out' = [out EXCEPT ![t] = ResNone]
    /\ WriteCell(t, arg[t])
    /\ pc' = [pc EXCEPT ![t] = "drop"]
    /\ UNCHANGED <<StepFrame, success_state, fcalls, dropped, inited>>

\* a variant: insert overwriting the old value without dropping it
insert_value_leaking(t) ==
    /\ pc[t] = "body" /\ op[t] = "insert"
    /\ UNCHANGED dropped
    /\ WriteCell(t, arg[t])
    /\ out' = [out EXCEPT ![t] = ResRef]
    /\ pc' = [pc EXCEPT ![t] = "drop"]
    /\ UNCHANGED <<StepFrame, success_state, fcalls, inited>>

\* insert, lines 425-427 (entered from SOME: the old value is dropped) and
\* 431-433 (entered from NONE)
insert_value(t) ==
    /\ pc[t] = "body" /\ op[t] = "insert"
    /\ IF initial_state[t] = SOME
       THEN \E old \in CellRead(t) : dropped' = dropped (+) SetToBag({old})
       ELSE UNCHANGED dropped
    /\ WriteCell(t, arg[t])
    /\ out' = [out EXCEPT ![t] = ResRef]
    /\ pc' = [pc EXCEPT ![t] = "drop"]
    /\ UNCHANGED <<StepFrame, success_state, fcalls, inited>>

\* get_or_insert_with, line 518: f is called, entered from NONE
get_or_insert_with_call(t) ==
    /\ pc[t] = "body" /\ op[t] = "get_or_insert_with"
    /\ pc' = [pc EXCEPT ![t] = "closure"]
    /\ fcalls' = [fcalls EXCEPT ![t] = @ + 1]
    /\ UNCHANGED <<shared, StepFrame, success_state, out, dropped, inited>>

\* get_or_insert_with, lines 518-519: f returns and its value is written, or f
\* panics and the handle is dropped by the unwinding
get_or_insert_with_f(t) ==
    /\ pc[t] = "closure" /\ op[t] = "get_or_insert_with"
    /\ \E panics \in PanicChoices :
        IF panics
        THEN /\ pc' = [pc EXCEPT ![t] = "unwind"]
             /\ UNCHANGED <<shared, out>>
        ELSE /\ WriteCell(t, arg[t])
             /\ out' = [out EXCEPT ![t] = ResRef]
             /\ pc' = [pc EXCEPT ![t] = "drop"]
    /\ UNCHANGED <<StepFrame, success_state, fcalls, dropped, inited>>

(* ---------------- with_order.rs, raw.rs, option.rs ---------------- *)
\* a variant: is_some_with_order answering true unless the tag is NONE
is_some_unless_none(s) == s # NONE
\* is_some_with_order / is_none_with_order (option.rs), on the tag they load
is_some_with_order(s) == s = SOME
is_none_with_order(s) == s = NONE
\* is_none_with_order as with_order.rs defines it
with_order_is_none_with_order(s) == s # SOME

\* one load of the tag with the caller's ordering, and the answer
Probe(t, answers) ==
    /\ pc[t] = "probe"
    /\ seen' = AcquireView(t, order[t])
    /\ UNCHANGED <<state, value, live, holders, pub>>
    /\ \E r \in answers : Return(t, r)
    /\ UNCHANGED <<op, order, calls, dropped, inited, fixed>>

\* state(order): State::new(self.state.load(order))
state_with_order(t) ==
    /\ op[t] = "state"
    /\ Probe(t, {ResState(state)})

\* is_some_with_order(order)
is_some_with_order_call(t) ==
    /\ op[t] = "is_some_with_order"
    /\ Probe(t, {ResBool(is_some_with_order(state))})

\* is_none_with_order(order): the source holds two definitions of it, either
\* of which the build may contain
is_none_with_order_call(t) ==
    /\ op[t] = "is_none_with_order"
    /\ Probe(t, {ResBool(is_none_with_order(state)),
                 ResBool(with_order_is_none_with_order(state))})

\* `match self.state.load(order) { SOME => Some(..), _ => None }`
LoadTag(t) ==
    /\ pc[t] = "load"
    /\ seen' = AcquireView(t, order[t])
    /\ UNCHANGED <<state, value, live, holders, pub>>
    /\ IF state = SOME
       THEN /\ pc' = [pc EXCEPT ![t] = "deref"]
            /\ UNCHANGED <<ret, returned, callLocals, hist>>
       ELSE Return(t, ResNone)
    /\ UNCHANGED <<op, order, calls, dropped, inited, fixed>>

\* as_ref_with_order(order): Some(&T) into the cell, without a handle
as_ref_with_order(t) ==
    /\ op[t] = "as_ref_with_order"
    /\ LoadTag(t)

\* get_raw_with_order(order): Some(*const T) into the cell, without a handle
get_raw_with_order(t) ==
    /\ op[t] = "get_raw_with_order"
    /\ LoadTag(t)

\* get_raw_mut_with_order(order): Some(*mut T) into the cell, without a handle
get_raw_mut_with_order(t) ==
    /\ op[t] = "get_raw_mut_with_order"
    /\ LoadTag(t)

\* the caller reads the value through the reference or pointer it was given
deref(t) ==
    /\ pc[t] = "deref"
    /\ UNCHANGED shared
    /\ \E v \in CellRead(t) : Return(t, ResSome(v))
    /\ UNCHANGED <<op, order, calls, dropped, inited, fixed>>

(* ---------------- drop.rs ---------------- *)
\* a variant: a drop that looks at the cell whenever the tag is not NONE
Drop_drop_unless_none ==
    /\ owner = "alive"
    /\ \A t \in AllThreads : pc[t] \in {"idle", "panicked"}
    /\ dropped' = IF state # NONE THEN dropped (+) SetToBag({value}) ELSE dropped
    /\ live' = IF state # NONE THEN FALSE ELSE live
    /\ owner' = "dropped"
    /\ UNCHANGED <<state, value, holders, seen, pub, pc, op, arg, order, ret, callLocals,
                   calls, returned, inited, mode, ctor, hist>>

\* Drop for ConcurrentOption: the owner drops the option when no call is running
\* on it (drop takes &mut self)
Drop_drop ==
    /\ owner = "alive"
    /\ \A t \in AllThreads : pc[t] \in {"idle", "panicked"}
    /\ CASE state = SOME ->
              \* assume_init_drop: the destructor runs on what the cell holds
              /\ dropped' = dropped (+) SetToBag({value})
              /\ live' = FALSE
              /\ owner' = "dropped"
         [] state = RESERVED ->
              /\ owner' = "panicked"
              /\ UNCHANGED <<dropped, live>>
         [] OTHER ->
              /\ owner' = "dropped"
              /\ UNCHANGED <<dropped, live>>
    /\ UNCHANGED <<state, value, holders, seen, pub, pc, op, arg, order, ret, callLocals,
                   calls, returned, inited, mode, ctor, hist>>

(* ---------------- the concurrent program ---------------- *)
\* any thread calls any of the guard-based &self methods
Call(t) == Invoke(t, GuardOps, {0}, {"Relaxed"}, MaxCalls)

\* the steps inside the guard-based calls
Inside(t) ==
    \/ Handle_get(t)
    \/ Handle_spin_get(t)
    \/ MutHandle_spin_get(t)
    \/ Handle_drop(t)
    \/ Handle_drop_unwind(t)
    \/ MutHandle_drop(t)
    \/ initialize_if_none_write(t)
    \/ update_if_some_call(t)
    \/ update_if_some_f(t)
    \/ take_read(t)
    \/ take_if_cas(t)
    \/ take_if_call(t)
    \/ take_if_predicate(t)
    \/ take_if_publish(t)
    \/ replace_value(t)
    \/ insert_value(t)
    \/ get_or_insert_with_call(t)
    \/ get_or_insert_with_f(t)

Next == \E t \in Threads : Call(t) \/ Inside(t)

Spec == Init /\ [][Next]_vars

(* ---------------- the init-once program ---------------- *)
(* tests/concurrent_init_and_read.rs, tests/concurrent_initialize_if_none.rs: *)
(* the option starts none(); writers call initialize_if_none, first with "7" *)
(* and then with another value; readers call the *_with_order accessors.     *)
ReadOps == {"as_ref_with_order", "get_raw_with_order"}
ReadOrders == {"Relaxed", "Acquire", "SeqCst"}

InitOnce ==
    /\ InitSlot(none)
    /\ InitLocals
    /\ mode = "init_once"

initializer_first(t) ==
    /\ op[t] = "-"
    /\ Invoke(t, {"initialize_if_none"}, {Seven}, {"Relaxed"}, MaxInitCalls)

initializer_again(t) ==
    /\ op[t] = "initialize_if_none"
    /\ Invoke(t, {"initialize_if_none"}, {Other}, {"Relaxed"}, MaxInitCalls)

reader(t) ==
    /\ op[t] \in {"-"} \cup ReadOps
    /\ Invoke(t, ReadOps, {0}, ReadOrders, MaxInitCalls)

NextOnce ==
    \E t \in OnceThreads :
        \/ initializer_first(t)
        \/ initializer_again(t)
        \/ reader(t)
        \/ Handle_get(t)
        \/ initialize_if_none_write(t)
        \/ Handle_drop(t)
        \/ as_ref_with_order(t)
        \/ get_raw_with_order(t)
        \/ deref(t)

SpecInitOnce == InitOnce /\ [][NextOnce]_vars

(* ---------------- the replacers ---------------- *)
(* tests/concurrent_replace.rs: every thread only calls replace *)
InitReplace ==
    /\ \E o \in {none, some(InitialValue)} : InitSlot(o)
    /\ InitLocals
    /\ mode = "replacers"

replacer(t) == Invoke(t, {"replace"}, {0}, {"Relaxed"}, MaxReplaceCalls)

NextReplace ==
    \E t \in Threads :
        \/ replacer(t)
        \/ Handle_spin_get(t)
        \/ replace_value(t)
        \/ Handle_drop(t)

SpecReplace == InitReplace /\ [][NextReplace]_vars

(* ---------------- the single-threaded program ---------------- *)
(* tests/option.rs: one thread calls the &self methods one after the other *)
InitSeq ==
    /\ \E o \in {none} \cup {some(Val(1, c)) : c \in {0, Seven, Other}} : InitSlot(o)
    /\ InitLocals
    /\ mode = "sequential"

SeqCall(t) == Invoke(t, GuardOps, {0}, {"Relaxed"}, MaxSeqCalls)

NextSeq == SeqCall(1) \/ Inside(1) \/ Drop_drop

SpecSeq == InitSeq /\ [][NextSeq]_vars

(* ---------------- the calm program ---------------- *)
(* threads calling the &self methods with closures that neither panic nor *)
(* diverge; a scheduler that runs every thread that can take a step, or   *)
(* every thread but one, which may be suspended anywhere                  *)
InitCalm ==
    /\ \E o \in {none, some(InitialValue)} : InitSlot(o)
    /\ InitLocals
    /\ mode = "calm"

CalmCall(t) == Invoke(t, GuardOps, {0}, {"Relaxed"}, MaxCalmCalls)

\* the steps inside the calls when no closure panics
InsideCalm(t) ==
    \/ Handle_get(t)
    \/ Handle_spin_get(t)
    \/ MutHandle_spin_get(t)
    \/ Handle_drop(t)
    \/ MutHandle_drop(t)
    \/ initialize_if_none_write(t)
    \/ update_if_some_call(t)
    \/ update_if_some_f(t)
    \/ take_read(t)
    \/ take_if_cas(t)
    \/ take_if_call(t)
    \/ take_if_predicate(t)
    \/ take_if_publish(t)
    \/ replace_value(t)
    \/ insert_value(t)
    \/ get_or_insert_with_call(t)
    \/ get_or_insert_with_f(t)

NextCalm == \E t \in Threads : CalmCall(t) \/ InsideCalm(t)

\* the threads that keep running; thread 1 is the one that may be suspended
Running == Threads \ {1}

\* every thread but thread 1 keeps taking steps inside its calls
SpecStalled == InitCalm /\ [][NextCalm]_vars /\ \A t \in Running : WF_vars(InsideCalm(t))

(* threads calling only the methods that enter through a spin loop and    *)
(* have one entry: take, take_if, update_if_some, get_raw, get_raw_mut,   *)
(* as_ref                                                                 *)
SpinOps == {"take", "take_if", "update_if_some", "get_raw", "get_raw_mut", "as_ref"}

SpinCall(t) == Invoke(t, SpinOps, {0}, {"Relaxed"}, MaxSpinCalls)

InsideSpin(t) ==
    \/ Handle_spin_get(t)
    \/ MutHandle_spin_get(t)
    \/ Handle_drop(t)
    \/ MutHandle_drop(t)
    \/ update_if_some_call(t)
    \/ update_if_some_f(t)
    \/ take_read(t)
    \/ take_if_cas(t)
    \/ take_if_call(t)
    \/ take_if_predicate(t)
    \/ take_if_publish(t)

NextSpin == \E t \in Threads : SpinCall(t) \/ InsideSpin(t)

\* every thread but thread 1 keeps taking steps inside its calls
SpecSpin == InitCalm /\ [][NextSpin]_vars /\ \A t \in Running : WF_vars(InsideSpin(t))

(* threads calling the methods that loop over two entries (replace, insert, *)
(* get_or_insert_with), thread 1 calling take as well, with closures that  *)
(* return and a scheduler that runs every thread that can take a step      *)
ArmOps(t) == IF t = 1 THEN TwoArmed \cup {"take"} ELSE TwoArmed

ArmCall(t) == Invoke(t, ArmOps(t), {0}, {"Relaxed"}, MaxArmCalls)

InsideArms(t) ==
    \/ Handle_spin_get(t)
    \/ Handle_drop(t)
    \/ take_read(t)
    \/ replace_value(t)
    \/ insert_value(t)
    \/ get_or_insert_with_call(t)
    \/ get_or_insert_with_f(t)

NextArms == \E t \in Threads : ArmCall(t) \/ InsideArms(t)

SpecArms == InitCalm /\ [][NextArms]_vars /\ \A t \in Threads : WF_vars(InsideArms(t))

(* ---------------- the safe program ---------------- *)
(* threads calling the methods that are safe to call concurrently:        *)
(* initialize_if_none, update_if_some, take, take_if, replace             *)
SafeOps == {"initialize_if_none", "update_if_some", "take", "take_if", "replace"}

InitSafe ==
    /\ \E o \in {none, some(InitialValue)} : InitSlot(o)
    /\ InitLocals
    /\ mode = "safe"

SafeCall(t) == Invoke(t, SafeOps, {0}, {"Relaxed"}, MaxSafeCalls)

InsideSafe(t) ==
    \/ Handle_get(t)
    \/ Handle_spin_get(t)
    \/ Handle_drop(t)
    \/ Handle_drop_unwind(t)
    \/ initialize_if_none_write(t)
    \/ update_if_some_call(t)
    \/ update_if_some_f(t)
    \/ take_read(t)
    \/ take_if_cas(t)
    \/ take_if_call(t)
    \/ take_if_predicate(t)
    \/ take_if_publish(t)
    \/ replace_value(t)

NextSafe == \E t \in Threads : SafeCall(t) \/ InsideSafe(t)

SpecSafe == InitSafe /\ [][NextSafe]_vars

(* ---------------- the program that never empties the option ---------------- *)
(* tests/concurrent_replace.rs, concurrent_update_if_some.rs,                 *)
(* concurrent_insert.rs: the option starts some(v); writers call replace,    *)
(* update_if_some and insert, readers read under a handle (get_raw, as_ref)  *)
KeepOps == {"replace", "update_if_some", "insert"}
GuardedReads == {"get_raw", "as_ref"}

InitKeep ==
    /\ InitSlot(some(InitialValue))
    /\ InitLocals
    /\ mode = "keep"

KeepCall(t) == Invoke(t, KeepOps \cup GuardedReads, {0}, {"Relaxed"}, MaxKeepCalls)

InsideKeep(t) ==
    \/ Handle_spin_get(t)
    \/ MutHandle_spin_get(t)
    \/ Handle_drop(t)
    \/ Handle_drop_unwind(t)
    \/ MutHandle_drop(t)
    \/ update_if_some_call(t)
    \/ update_if_some_f(t)
    \/ replace_value(t)
    \/ insert_value(t)

NextKeep == \E t \in Threads : KeepCall(t) \/ InsideKeep(t)

SpecKeep == InitKeep /\ [][NextKeep]_vars

(* ---------------- the takers ---------------- *)
(* tests/concurrent_take.rs: the option starts some(v); takers call take, *)
(* readers read under a handle; nobody writes                             *)
InitTake ==
    /\ InitSlot(some(InitialValue))
    /\ InitLocals
    /\ mode = "takers"

TakeCall(t) == Invoke(t, {"take"} \cup GuardedReads, {0}, {"Relaxed"}, MaxTakeCalls)

InsideTake(t) ==
    \/ Handle_spin_get(t)
    \/ MutHandle_spin_get(t)
    \/ Handle_drop(t)
    \/ MutHandle_drop(t)
    \/ take_read(t)

NextTake == \E t \in Threads : TakeCall(t) \/ InsideTake(t)

SpecTake == InitTake /\ [][NextTake]_vars

(* ---------------- the unchecked initializer ---------------- *)
(* tests/concurrent_initiate_unchecked.rs: the option starts none(); thread 1 *)
(* calls initialize_unchecked once, the other threads read with             *)
(* as_ref_with_order                                                        *)
InitUnchecked ==
    /\ InitSlot(none)
    /\ InitLocals
    /\ mode = "unchecked"

unchecked_initializer(t) ==
    /\ t = 1 /\ op[t] = "-"
    /\ Invoke(t, {"initialize_unchecked"}, {Seven}, {"Relaxed"}, MaxUncheckedCalls)

unchecked_reader(t) ==
    /\ t # 1
    /\ Invoke(t, {"as_ref_with_order"}, {0}, ReadOrders, MaxUncheckedCalls)

NextUnchecked ==
    \E t \in Threads :
        \/ unchecked_initializer(t)
        \/ unchecked_reader(t)
        \/ initialize_unchecked_write(t)
        \/ initialize_unchecked_store(t)
        \/ as_ref_with_order(t)
        \/ deref(t)

SpecUnchecked == InitUnchecked /\ [][NextUnchecked]_vars

(* ---------------- the probing program ---------------- *)
(* threads calling the accessors and probes that only load the tag, while *)
(* initialize_if_none and take calls move it                              *)
Accessors == {"as_ref_with_order", "get_raw_with_order", "get_raw_mut_with_order"}
Probes == {"is_some_with_order", "is_none_with_order", "state"}

InitProbe ==
    /\ \E o \in {none, some(InitialValue)} : InitSlot(o)
    /\ InitLocals
    /\ mode = "probes"

ProbeCall(t) ==
    \/ Invoke(t, Accessors \cup Probes, {0}, ReadOrders, MaxProbeCalls)
    \/ Invoke(t, {"initialize_if_none", "take"}, {0}, {"Relaxed"}, MaxProbeCalls)

InsideProbe(t) ==
    \/ Handle_get(t)
    \/ Handle_spin_get(t)
    \/ Handle_drop(t)
    \/ initialize_if_none_write(t)
    \/ take_read(t)
    \/ as_ref_with_order(t)
    \/ get_raw_with_order(t)
    \/ get_raw_mut_with_order(t)
    \/ deref(t)
    \/ state_with_order(t)
    \/ is_some_with_order_call(t)
    \/ is_none_with_order_call(t)

NextProbe == \E t \in Threads : ProbeCall(t) \/ InsideProbe(t)

SpecProbe == InitProbe /\ [][NextProbe]_vars

(* ---------------- writers and entrants ---------------- *)
(* thread 1 calls take_if and initialize_if_none, the other threads call   *)
(* replace and as_ref: every entry and every publication of the protocol   *)
(* follows writes of the cell made by another thread                       *)
OrderOps(t) == IF t = 1 THEN {"take_if", "initialize_if_none"} ELSE {"replace", "as_ref"}

InitOrder ==
    /\ \E o \in {none, some(InitialValue)} : InitSlot(o)
    /\ InitLocals
    /\ mode = "orders"

OrderCall(t) == Invoke(t, OrderOps(t), {0}, {"Relaxed"}, MaxOrderCalls)

InsideOrder(t) ==
    \/ Handle_get(t)
    \/ Handle_spin_get(t)
    \/ MutHandle_spin_get(t)
    \/ Handle_drop(t)
    \/ MutHandle_drop(t)
    \/ initialize_if_none_write(t)
    \/ take_if_cas(t)
    \/ take_if_call(t)
    \/ take_if_predicate(t)
    \/ take_if_publish(t)
    \/ replace_value(t)

NextOrder == \E t \in Threads : OrderCall(t) \/ InsideOrder(t)

SpecOrder == InitOrder /\ [][NextOrder]_vars

(* ---------------- the program that ends with the drop ---------------- *)
(* std::thread::scope: the threads call the guard-based methods; when they *)
(* have joined, the owner drops the option                                 *)
InitJoined ==
    /\ \E o \in {none, some(InitialValue)} : InitSlot(o)
    /\ InitLocals
    /\ mode = "joined"

JoinedCall(t) == Invoke(t, GuardOps, {0}, {"Relaxed"}, MaxJoinedCalls)

NextJoined ==
    \/ \E t \in Threads : JoinedCall(t) \/ Inside(t)
    \/ Drop_drop

SpecJoined == InitJoined /\ [][NextJoined]_vars

(* ---------------- the program whose values are counted ---------------- *)
(* tests/concurrent_read_and_write.rs: the threads call initialize_if_none, *)
(* update_if_some, replace, take, take_if (and insert); when they have      *)
(* joined, the owner drops the option                                       *)
OwnedOps == {"initialize_if_none", "take", "take_if", "replace", "insert", "update_if_some"}

InitOwned ==
    /\ \E o \in {none, some(InitialValue)} : InitSlot(o)
    /\ InitLocals
    /\ mode = "owned"

OwnedCall(t) == Invoke(t, OwnedOps, {0}, {"Relaxed"}, MaxOwnedCalls)

InsideOwned(t) ==
    \/ Handle_get(t)
    \/ Handle_spin_get(t)
    \/ Handle_drop(t)
    \/ Handle_drop_unwind(t)
    \/ initialize_if_none_write(t)
    \/ update_if_some_call(t)
    \/ update_if_some_f(t)
    \/ take_read(t)
    \/ take_if_cas(t)
    \/ take_if_call(t)
    \/ take_if_predicate(t)
    \/ take_if_publish(t)
    \/ replace_value(t)
    \/ insert_value(t)

NextOwned ==
    \/ \E t \in Threads : OwnedCall(t) \/ InsideOwned(t)
    \/ Drop_drop

SpecOwned == InitOwned /\ [][NextOwned]_vars

(* ---------------- the readers ---------------- *)
(* an option constructed some(v) on which the threads only read: through a *)
(* handle (get_raw, get_raw_mut, as_ref) or by one load of the tag         *)
HandleReads == {"get_raw", "get_raw_mut", "as_ref"}
LoadReads == {"is_some_with_order", "as_ref_with_order", "get_raw_with_order"}

InitReaders ==
    /\ InitSlot(some(InitialValue))
    /\ InitLocals
    /\ mode = "readers"

ReaderCall(t) ==
    \/ Invoke(t, HandleReads, {0}, {"Relaxed"}, MaxReaderCalls)
    \/ Invoke(t, LoadReads, {0}, ReadOrders, MaxReaderCalls)

InsideReaders(t) ==
    \/ Handle_spin_get(t)
    \/ MutHandle_spin_get(t)
    \/ Handle_drop(t)
    \/ MutHandle_drop(t)
    \/ is_some_with_order_call(t)
    \/ as_ref_with_order(t)
    \/ get_raw_with_order(t)
    \/ deref(t)

NextReaders == \E t \in Threads : ReaderCall(t) \/ InsideReaders(t)

SpecReaders == InitReaders /\ [][NextReaders]_vars

(* ======================= properties ======================= *)

C2_InitExactlyOne ==
    LET callers == {t \in OnceThreads : op[t] # "-"}
        winners == {t \in callers : ret[t] = ResTrue}
    IN  (calls = Cardinality(callers) /\ \A t \in callers : op[t] = "initialize_if_none")
        => /\ Cardinality(winners) <= 1
           /\ Cardinality(inited) <= 1
           /\ (callers # {} /\ \A t \in OnceThreads : pc[t] = "idle")
              => /\ Cardinality(winners) = 1
                 /\ \A t \in callers \ winners : ret[t] = ResFalse
                 /\ state = SOME /\ live
                 /\ inited = {[thread |-> w, v |-> value] : w \in winners}

\* all threads have called initialize_if_none once and returned
C2_Witness ==
    /\ calls = NumInitThreads
    /\ \A t \in OnceThreads : op[t] = "initialize_if_none" /\ pc[t] = "idle"
    /\ \E w \in OnceThreads : ret[w] = ResTrue
    /\ \E u \in OnceThreads : ret[u] = ResFalse

(* ---- C3 ---- *)
\* a read of the init-once program returning: as_ref_with_order or
\* get_raw_with_order found no value (at the load) or hands back what the
\* caller read through the reference
ReadReturns(t) ==
    /\ op[t] \in ReadOps
    /\ pc[t] \in {"load", "deref"}
    /\ pc'[t] = "idle"

\* the values written by the initialize_if_none calls that returned true
Initialized == {i.v : i \in inited}

\* C3 as stated, for whatever ordering the read is given: a read returns None
\* or the fully written value of the winning initializer, and once a read has
\* returned Some every later read returns Some of the same value.
C3_AnyOrderReads ==
    /\ [](\A t \in OnceThreads :
            (op[t] \in ReadOps /\ ret[t].kind = "Some") => ret[t].v \in Initialized)
    /\ [][returned # EmptyBag =>
            \A t \in OnceThreads :
                ReadReturns(t) => (ret'[t] = ResSome(value) /\ value \in Initialized)]_vars

\* C3, for reads given Acquire or SeqCst: such a read returns None or the
\* fully written value of the winning initializer, and once any read has
\* returned Some every later such read returns Some of the same value.
C3_AcquireReads ==
    /\ [](\A t \in OnceThreads :
            (op[t] \in ReadOps /\ IsAcquire(order[t]) /\ ret[t].kind = "Some")
            => ret[t].v \in Initialized)
    /\ [][returned # EmptyBag =>
            \A t \in OnceThreads :
                (ReadReturns(t) /\ IsAcquire(order[t]))
                => (ret'[t] = ResSome(value) /\ value \in Initialized)]_vars

\* an Acquire or SeqCst read has returned the initialized value after another
\* read had found no value
C3_Witness ==
    \E t, u \in OnceThreads :
        /\ t # u
        /\ op[t] \in ReadOps /\ IsAcquire(order[t]) /\ pc[t] = "idle"
        /\ ret[t].kind = "Some" /\ ret[t].v.x = Seven
        /\ op[u] \in ReadOps /\ ret[u] = ResNone

(* ---- C4 ---- *)
\* C4: in the init-once program (writers call initialize_if_none("7") once and
\* then initialize_if_none(other), next to readers) every call after a
\* thread's first returns false, the slot never holds anything but "7", and
\* once all threads have finished and some writer has called, the slot is
\* SOME and contains "7".
C4_InitOnce ==
    /\ [](state = SOME => (live /\ value.x = Seven))
    /\ []((\A t \in OnceThreads : pc[t] = "idle")
          /\ (\E t \in OnceThreads : op[t] = "initialize_if_none")
          => (state = SOME /\ live /\ value.x = Seven))
    /\ [][\A t \in OnceThreads :
            (op[t] = "initialize_if_none" /\ arg[t].x = Other
             /\ pc[t] # "idle" /\ pc'[t] = "idle")
            => ret'[t] = ResFalse]_vars

\* a writer's second call has returned false while a reader has read the
\* value, and all threads have finished
C4_Witness ==
    /\ \A t \in OnceThreads : pc[t] = "idle"
    /\ calls = MaxInitCalls
    /\ state = SOME /\ value.x = Seven
    /\ \E t, u \in OnceThreads :
        /\ op[t] = "initialize_if_none" /\ ret[t] = ResFalse
        /\ Cardinality({i \in inited : i.thread = t}) = 1
        /\ op[u] \in ReadOps /\ ret[u].kind = "Some"

(* ---- C5 ---- *)
\* C5: with threads that only call replace, no value is ever returned twice,
\* and once all calls have returned the values returned as Some(old) together
\* with the value left in the slot are exactly the initial value (if any)
\* and the values passed to replace.
C5_NoLostUpdate ==
    LET \* the values passed to the replace calls made so far
        passed == {Val(i, 0) : i \in 2..(calls + 1)}
        \* the value the option was constructed with, and the value it holds
        initial == IF ctor.state = SOME THEN SetToBag({ctor.value}) ELSE EmptyBag
        final == IF state = SOME /\ live THEN SetToBag({value}) ELSE EmptyBag
    IN  /\ \A v \in BagToSet(returned) : CopiesIn(v, returned) = 1
        /\ (\A t \in Threads : pc[t] = "idle")
           => returned (+) final = initial (+) SetToBag(passed)

\* all replace calls of the program have returned, two of them with a
\* displaced value, on an option that was constructed some(v)
C5_Witness ==
    /\ \A t \in Threads : pc[t] = "idle"
    /\ calls = MaxReplaceCalls
    /\ ctor.state = SOME
    /\ BagCardinality(returned) = MaxReplaceCalls
    /\ \A t \in Threads : op[t] = "replace"

(* ---- C6 ---- *)
\* C6: when the compare_exchange of a take call observes the tag NONE, the call
\* returns None in that very step, and the step leaves the tag and the cell
\* as they were.
C6_TakeOnNone ==
    [][\A t \in Threads :
        (/\ op[t] = "take" /\ pc[t] = "spin" /\ state = NONE
         /\ <<pc[t], spun[t], ret[t]>> # <<pc'[t], spun'[t], ret'[t]>>)
        => /\ pc'[t] = "idle"
           /\ ret'[t] = ResNone
           /\ state' = NONE /\ value' = value /\ live' = live
           /\ holders' = holders]_vars

\* a take call found the option NONE and returned None
C6_Witness ==
    \E t \in Threads :
        /\ op[t] = "take" /\ pc[t] = "idle" /\ ret[t] = ResNone
        /\ state = NONE /\ ctor = none /\ calls = 1

(* ---- C7 ---- *)
\* C7: in the single-threaded program on an option constructed some(v), a take
\* made as the first call returns Some(v) and leaves the tag NONE (is_none
\* holds, is_some does not), and a take made right after it returns None.
C7_RoundTrip ==
    (ctor.state = SOME /\ Len(hist) >= 1 /\ hist[1].op = "take")
    => /\ hist[1].ret = ResSome(ctor.value)
       /\ hist[1].state = NONE
       /\ is_none_with_order(hist[1].state)
       /\ ~is_some_with_order(hist[1].state)
       /\ (Len(hist) >= 2 /\ hist[2].op = "take")
          => (hist[2].ret = ResNone /\ hist[2].state = NONE)

\* some("7") was taken twice
C7_Witness ==
    /\ ctor = some(Val(1, Seven))
    /\ Len(hist) = 2
    /\ hist[1].op = "take" /\ hist[2].op = "take"
    /\ hist[1].ret.kind = "Some"

(* ---- C8 ---- *)
\* C8: a take_if call that entered from SOME publishes only after its predicate
\* has answered, the tag staying RESERVED until then; when the answer is true
\* the value is moved out, the tag published is NONE and the call returns
\* Some(value); when it is false the value stays in the cell as the predicate
\* left it, the tag published is SOME and the call returns None.
C8_TakeIfOutcome ==
    /\ [](\A t \in Threads :
            (op[t] = "take_if" /\ pc[t] \in {"body", "closure", "tif_pub"})
            => /\ state = RESERVED
               /\ (pc[t] = "tif_pub") <=> (verdict[t] # "-"))
    /\ [][\A t \in Threads :
            (pc[t] = "tif_pub" /\ pc'[t] # "tif_pub")
            => /\ pc'[t] = "idle"
               /\ value' = value
               /\ verdict[t] = "true"
                  => (state' = NONE /\ ret'[t] = ResSome(value) /\ ~live')
               /\ verdict[t] = "false"
                  => (state' = SOME /\ ret'[t] = ResNone /\ live' = live)]_vars

\* one take_if call was answered false by a predicate that changed the value,
\* the next one was answered true and returned the changed value
C8_Witness ==
    \E t, u \in Threads :
        /\ t # u
        /\ op[t] = "take_if" /\ pc[t] = "idle" /\ ret[t] = ResNone
        /\ op[u] = "take_if" /\ pc[u] = "idle" /\ ret[u] = ResSome(Val(1, 1))
        /\ state = NONE /\ ~live

(* ---- C9 ---- *)
\* C9: a take_if call invokes its predicate at most once: not before it has won
\* the transition out of SOME, exactly once when it has, and never when it
\* returns on observing NONE. While the predicate runs the tag is RESERVED,
\* the caller is the only thread inside a transition and no step of another
\* thread touches the cell. A predicate answering false leaves its changes in
\* the cell, published with the tag SOME, and every thread that then enters a
\* transition has them in its view.
C9_PredicateIsolation ==
    /\ [](\A t \in Threads :
            /\ op[t] = "take_if"
               => /\ fcalls[t] <= 1
                  /\ pc[t] \in {"tif_cas", "body"} => fcalls[t] = 0
                  /\ pc[t] \in {"closure", "tif_pub"} => fcalls[t] = 1
                  /\ pc[t] = "closure"
                     => /\ state = RESERVED
                        /\ holders = {t}
                        /\ \A u \in Threads \ {t} :
                            pc[u] \notin {"body", "closure", "drop", "unwind", "tif_pub"}
            /\ pc[t] \in {"body", "closure"} => t \in seen)
    /\ [][\A t \in Threads :
            /\ (pc[t] = "tif_cas" /\ pc'[t] = "idle")
               => (state = NONE /\ fcalls[t] = 0 /\ ret'[t] = ResNone)
            /\ (op[t] = "take_if" /\ pc[t] = "closure" /\ pc'[t] = "closure")
               => (state' = RESERVED /\ value' = value /\ live' = live)
            /\ (pc[t] = "tif_pub" /\ verdict[t] = "false" /\ pc'[t] = "idle")
               => (state' = SOME /\ value' = value /\ live' = live /\ pub')]_vars

\* a predicate changed the value and answered false, and the take that came
\* next returned the changed value
C9_Witness ==
    \E t, u \in Threads :
        /\ t # u
        /\ op[t] = "take_if" /\ pc[t] = "idle" /\ ret[t] = ResNone
        /\ op[u] = "take" /\ pc[u] = "idle" /\ ret[u] = ResSome(Val(1, 1))

C11_TakeIfPanicPublishes ==
    [][\A t \in Threads :
        (op[t] = "take_if" /\ pc[t] = "closure" /\ pc'[t] = "panicked")
        => state' \in {NONE, SOME}]_vars

(* ---- C12 ---- *)
\* C12: when one thread may be suspended for good anywhere inside its calls
\* (also while it holds the tag at RESERVED), every call of the threads that
\* keep running returns.
C12_LockFree ==
    \A u \in Running :
        (/\ pc[u] # "idle"
         /\ op[u] \in {"take", "update_if_some", "replace", "get_raw", "initialize_if_none"})
        ~> (pc[u] = "idle")

(* ---- C13 ---- *)
\* C13: dropping the option runs the destructor of the stored value, once, when
\* the tag is SOME and only then; with the tag NONE the drop leaves the cell
\* alone; with the tag RESERVED the drop panics.
C13_Destruction ==
    [][owner' # owner =>
        /\ owner = "alive"
        /\ state' = state /\ value' = value
        /\ (state = SOME)
           => (owner' = "dropped" /\ dropped' = dropped (+) SetToBag({value}) /\ ~live')
        /\ (state = NONE)
           => (owner' = "dropped" /\ dropped' = dropped /\ live' = live)
        /\ (state = RESERVED)
           => (owner' = "panicked" /\ dropped' = dropped /\ live' = live)]_vars

\* an option holding the value a replace call stored was dropped, and the
\* destructor of that value has run once
C13_Witness ==
    /\ owner = "dropped"
    /\ state = SOME
    /\ value.id > 1
    /\ CopiesIn(value, dropped) = 1
    /\ \E k \in 1..Len(hist) : hist[k].op = "replace"

(* ---- C14 ---- *)
\* C14: with guard-based &self calls only, whenever a thread is about to drop
\* its Handle or MutHandle, or to publish in take_if, the tag is still
\* RESERVED, so the closing compare_exchange succeeds and its expect(..) never
\* panics: no call ends in a panic but by a panic of its closure.
C14_ClosingCasSucceeds ==
    \A t \in Threads :
        /\ pc[t] \in {"drop", "unwind", "tif_pub"}
           => (state = RESERVED /\ holders = {t} /\ compare_exchange_ok(RESERVED))
        /\ pc[t] = "panicked" => op[t] \in {"update_if_some", "take_if", "get_or_insert_with"}

\* a replace call has dropped its handle and returned, and a take_if call is
\* about to publish
C14_Witness ==
    \E t, u \in Threads :
        /\ op[t] = "replace" /\ pc[t] = "idle" /\ ret[t].kind \in {"Some", "None"}
        /\ op[u] = "take_if" /\ pc[u] = "tif_pub"
        /\ state = RESERVED

C16_SpinEntry ==
    [][\A t \in Threads :
        /\ (/\ pc[t] \in {"spin", "mspin"}
            /\ <<pc[t], spins[t], initial_state[t]>> # <<pc'[t], spins'[t], initial_state'[t]>>)
           => CASE state = initial_state[t] ->
                     /\ state' = RESERVED /\ holders' = holders \cup {t}
                     /\ pc'[t] \in {"body", "drop"}
                [] state = RESERVED ->
                     /\ pc'[t] = pc[t] /\ spun'[t] /\ initial_state'[t] = initial_state[t]
                     /\ state' = state /\ holders' = holders
                [] OTHER ->
                     /\ state' = state /\ holders' = holders
                     /\ IF op[t] \in TwoArmed
                        THEN pc'[t] = pc[t] /\ initial_state'[t] # initial_state[t]
                        ELSE pc'[t] = "idle" /\ ret'[t] = MissResult(op[t])
        /\ (t \in holders' \ holders)
           => (state = initial_state[t] /\ state' = RESERVED)]_vars

\* a spinning call found RESERVED, went round again and then got its handle
C16_Witness ==
    \E t \in Threads :
        /\ op[t] \in {"take", "update_if_some", "get_raw", "get_raw_mut", "as_ref"}
        /\ spun[t]
        /\ pc[t] \in {"body", "drop"}
        /\ holders = {t}

(* ---- C17 ---- *)
\* C17: initialize_if_none returns true exactly when it found the option None
\* and has written its value, which is then published; it returns false only
\* when the option already holds a value, and then changes nothing. "Holds a
\* value" is read in the claim's favour: the tag is SOME, or it is RESERVED by
\* a call that will publish SOME.
C17_InitResult ==
    [][\A t \in Threads :
        (op[t] = "initialize_if_none" /\ pc[t] # "idle" /\ pc'[t] = "idle")
        => \/ /\ ret'[t] = ResTrue
              /\ pc[t] = "drop" /\ initial_state[t] = NONE
              /\ state' = SOME /\ value' = arg[t] /\ live'
           \/ /\ ret'[t] = ResFalse
              /\ pc[t] = "get"
              /\ \/ state = SOME
                 \/ state = RESERVED /\ \E u \in holders : success_state[u] = SOME
              /\ state' = state /\ value' = value /\ live' = live]_vars

(* ---- C18 ---- *)
\* the position of an initialize_if_none call in its straight-line code
InitRank(p) ==
    CASE p = "get" -> 1
      [] p = "body" -> 2
      [] p = "drop" -> 3
      [] p = "idle" -> 4
      [] OTHER -> 0

InCall(t) == pc[t] \notin {"idle", "panicked"}

\* C19: with finitely many calls per thread and closures that return, (a) if
\* every thread keeps being scheduled, every call, the spinning ones included,
\* eventually returns; (b) whatever the scheduling of thread 1, a call of a
\* scheduled thread fails to return only if the tag stays RESERVED for ever.
C19_SpinTermination ==
    /\ WF_vars(InsideSpin(1)) => \A t \in Threads : InCall(t) ~> (pc[t] = "idle")
    /\ []<>(state # RESERVED) => \A u \in Running : InCall(u) ~> (pc[u] = "idle")

\* with closures that return, a call that found RESERVED and went round
\* again now holds its handle, after another thread's call has returned
C19_Witness ==
    /\ mode = "calm"
    /\ \E t, u \in Threads :
        /\ op[t] \in {"take", "update_if_some", "get_raw", "get_raw_mut", "as_ref"}
        /\ spun[t] /\ InCall(t) /\ holders = {t}
        /\ u # t /\ pc[u] = "idle" /\ ret[u].kind # "pending"

(* ---- C20 ---- *)
\* C20: a replace(v) call that entered from SOME takes out the value the cell
\* held when it won its compare_exchange (nothing else touches the cell while
\* it holds the handle) and writes v; one that entered from NONE only writes
\* v. The call ends by publishing SOME over a cell holding v, and returns
\* Some(old) exactly when it entered from SOME, None exactly when it entered
\* from NONE.
C20_ReplaceResult ==
    [][\A t \in Threads : op[t] = "replace" =>
        /\ (pc[t] = "spin" /\ pc'[t] = "body")
           => (state = initial_state[t] /\ value' = value)
        /\ (pc[t] = "body" /\ pc'[t] = "body")
           => (value' = value /\ live' = live /\ state' = RESERVED)
        /\ (pc[t] = "body" /\ pc'[t] = "drop")
           => /\ value' = arg[t] /\ live'
              /\ out'[t] = IF initial_state[t] = SOME THEN ResSome(value) ELSE ResNone
        /\ (pc[t] = "drop" /\ pc'[t] = "drop")
           => (value' = value /\ live' = live /\ out'[t] = out[t])
        /\ (pc[t] = "drop" /\ pc'[t] # "drop")
           => /\ pc'[t] = "idle"
              /\ state' = SOME /\ value' = arg[t] /\ value' = value /\ live'
              /\ ret'[t] = out[t]
              /\ (ret'[t].kind = "Some") <=> (initial_state[t] = SOME)
              /\ (ret'[t] = ResNone) <=> (initial_state[t] = NONE)]_vars

\* on an option constructed none(), a replace call has returned Some(old),
\* old being the value an earlier replace call wrote, and the option holds
\* the new value
C20_Witness ==
    /\ ctor = none
    /\ \E t, u \in Threads :
        /\ op[u] = "replace" /\ pc[u] = "idle" /\ ret[u] = ResNone
        /\ op[t] = "replace" /\ pc[t] = "idle" /\ ret[t].kind = "Some"
        /\ ret[t].v.id > 0 /\ ret[t].v # value
        /\ state = SOME /\ live

(* ---- C21 ---- *)
\* C21: when every thread that can take a step keeps being scheduled, the
\* threads make finitely many calls and every closure returns (so that every
\* handle is dropped), each replace, insert and get_or_insert_with call
\* eventually wins one of its two entries and returns.
C21_TwoArmedTerminates ==
    \A t \in Threads :
        (InCall(t) /\ op[t] \in TwoArmed)
        ~> (pc[t] = "idle" /\ ret[t].kind \in {"Some", "None", "ref"})

\* a two-armed call found RESERVED on its SOME entry, then NONE, went to its
\* NONE entry and won it
C21_Witness ==
    \E t \in Threads :
        /\ mode = "calm"
        /\ op[t] \in TwoArmed
        /\ spun[t] /\ initial_state[t] = NONE
        /\ holders = {t}
        /\ ctor = some(InitialValue)

(* ---- C22 ---- *)
\* C22: a get_or_insert_with(f) call invokes f at most once, and only while it
\* holds the handle it won from NONE; a call that entered from SOME does not
\* invoke f and nobody changes the cell while it holds its handle; the handle
\* of either entry publishes SOME when the call ends.
C22_GetOrInsertWith ==
    /\ [](\A t \in Threads : op[t] = "get_or_insert_with" =>
            /\ fcalls[t] <= 1
            /\ pc[t] = "closure" => (initial_state[t] = NONE /\ t \in holders /\ fcalls[t] = 1)
            /\ (t \in holders /\ initial_state[t] = SOME) => (fcalls[t] = 0 /\ pc[t] = "drop"))
    /\ [][\A t \in Threads : op[t] = "get_or_insert_with" =>
            /\ fcalls'[t] > fcalls[t]
               => (pc[t] = "body" /\ t \in holders /\ initial_state[t] = NONE /\ fcalls[t] = 0)
            /\ (t \in holders /\ initial_state[t] = SOME)
               => (value' = value /\ live' = live)
            /\ (t \in holders /\ t \notin holders')
               => state' = SOME]_vars

\* on an option constructed none(), one get_or_insert_with call has called f
\* and returned, and another one holds the handle it won from SOME
C22_Witness ==
    /\ ctor = none
    /\ \E t, u \in Threads :
        /\ op[u] = "get_or_insert_with" /\ pc[u] = "idle" /\ ret[u] = ResRef
        /\ op[t] = "get_or_insert_with" /\ pc[t] = "drop" /\ initial_state[t] = SOME
        /\ fcalls[t] = 0 /\ holders = {t} /\ value.id > 1 /\ live

(* ---- C23 ---- *)
\* C23: over initialize_if_none, update_if_some, take, take_if and replace,
\* from some(v) or none(): whenever the tag is SOME the cell holds a live
\* value (written, and not moved out), and whenever the tag is NONE it holds
\* none (never written, or moved out).
C23_StorageFollowsTag ==
    /\ state = SOME => (live /\ value.id >= 1)
    /\ state = NONE => ~live

\* on an option constructed none(), a value was written and then moved out:
\* the tag is NONE again over the bits of that value
C23_Witness ==
    /\ ctor = none
    /\ state = NONE /\ ~live /\ value.id > 1
    /\ \E t \in Threads : pc[t] = "idle" /\ ret[t].kind = "Some" /\ ret[t].v.id = value.id

(* ---- C24 ---- *)
\* the positions of a call at which its next step reads or writes the cell
AtCell(t) == pc[t] \in {"body", "closure"}

\* C24: over initialize_if_none, update_if_some, take, take_if and replace, a
\* thread whose next step reads or writes the cell holds RESERVED, having won
\* its compare_exchange and not yet published; and every step that changes
\* the cell is such a step of the one thread that holds RESERVED, which still
\* holds it afterwards.
C24_CellUnderToken ==
    /\ [](\A t \in Threads : AtCell(t) => (holders = {t} /\ state = RESERVED))
    /\ [][(value' # value \/ live' # live)
           => \E t \in Threads :
                /\ AtCell(t) /\ pc'[t] # pc[t]
                /\ holders = {t} /\ state = RESERVED
                /\ holders' = {t} /\ state' = RESERVED]_vars

\* the closure of an update_if_some call has changed the value under the
\* handle while a replace call spins on RESERVED
C24_Witness ==
    \E t, u \in Threads :
        /\ mode = "safe"
        /\ op[t] = "update_if_some" /\ pc[t] = "drop" /\ holders = {t}
        /\ value.x = 1 /\ live
        /\ op[u] = "replace" /\ pc[u] = "spin" /\ spun[u]

(* ---- C25 ---- *)
\* the values the option can hold in the program that never empties it: the
\* initial one and the arguments of the calls made so far, whatever the
\* closures of update_if_some made of their content
Written == {Val(i, c) : i \in 1..(calls + 1), c \in 0..calls}

\* C25: from some(v), with replace, update_if_some and insert as the only
\* mutating calls: the tag is never NONE; a read that holds its handle finds
\* in the cell a live value that is the initial one or one a call wrote;
\* every guarded read that has returned returned Some, and every replace
\* that has returned returned Some(old) with such a value.
C25_NeverLooksEmpty ==
    /\ state # NONE
    /\ \A t \in Threads :
        /\ (op[t] \in GuardedReads /\ t \in holders) => (live /\ value \in Written)
        /\ (op[t] \in GuardedReads /\ pc[t] = "idle") => ret[t] = ResRef
        /\ (op[t] = "replace" /\ pc[t] = "idle")
           => (ret[t].kind = "Some" /\ ret[t].v \in Written)

\* a read holds its handle over a value a replace call wrote, after it spun
\* on RESERVED, and the replace has returned the initial value
C25_Witness ==
    \E t, u \in Threads :
        /\ mode = "keep"
        /\ op[t] \in GuardedReads /\ holders = {t} /\ spun[t] /\ value.id > 1
        /\ op[u] = "replace" /\ pc[u] = "idle" /\ ret[u] = ResSome(InitialValue)

(* ---- C26 ---- *)
\* C26: from some(v), with take as the only mutating call: at most one take
\* call ever returns Some, and it returns Some(v); as soon as any take call
\* has returned, exactly one has returned Some(v), and that is when the tag
\* is NONE; every read returns Some or None, and a read holds its handle over
\* v only while no take has published NONE.
C26_OneTaker ==
    /\ BagCardinality(returned) <= 1
    /\ BagToSet(returned) \subseteq {InitialValue}
    /\ (state = NONE) <=> (returned # EmptyBag /\ holders = {})
    /\ \A t \in Threads :
        /\ (op[t] = "take" /\ pc[t] = "idle")
           => (ret[t] \in {ResSome(InitialValue), ResNone} /\ BagCardinality(returned) = 1)
        /\ (op[t] \in GuardedReads /\ pc[t] = "idle") => ret[t] \in {ResRef, ResNone}
        /\ (op[t] \in GuardedReads /\ t \in holders)
           => (value = InitialValue /\ live /\ returned = EmptyBag)
    /\ Cardinality({t \in Threads : op[t] = "take" /\ pc[t] = "idle" /\ ret[t].kind = "Some"}) <= 1

\* one take call returned Some(v), another thread's take call returned None,
\* and a later read returned None
C26_Witness ==
    \E t, u \in Threads :
        /\ mode = "takers"
        /\ op[t] = "take" /\ pc[t] = "idle" /\ ret[t] = ResNone
        /\ op[u] \in GuardedReads /\ pc[u] = "idle" /\ ret[u] = ResNone
        /\ returned = SetToBag({InitialValue})
        /\ state = NONE

(* ---- C27 ---- *)
\* what initialize_unchecked itself does, whatever the readers do: the tag is
\* never RESERVED, it is SOME only over the written value, and it is SOME
\* once the call has returned
UncheckedWritesThenStores ==
    /\ state # RESERVED
    /\ state = SOME => (live /\ value.x = Seven /\ value.id >= 2)
    /\ (op[1] = "initialize_unchecked" /\ pc[1] = "idle") => state = SOME
    /\ pc[1] = "iu_write" => (state = NONE /\ ~live)

\* C27 as stated, for whatever ordering the reads are given: with
\* initialize_unchecked as the only writer of a none() option, the call
\* writes before it stores SOME and never sets RESERVED, the tag is SOME
\* after it, and every as_ref_with_order read returns None or the written
\* value.
C27_UncheckedAnyOrder ==
    /\ UncheckedWritesThenStores
    /\ \A t \in Threads :
        (op[t] = "as_ref_with_order" /\ ret[t].kind = "Some")
        => (ret[t].v.x = Seven /\ ret[t].v.id >= 2)

\* C27, for reads given Acquire or SeqCst: the same, every such read
\* returning None or the written value.
C27_UncheckedAcquire ==
    /\ UncheckedWritesThenStores
    /\ \A t \in Threads :
        (op[t] = "as_ref_with_order" /\ IsAcquire(order[t]) /\ ret[t].kind = "Some")
        => (ret[t].v.x = Seven /\ ret[t].v.id >= 2)

\* initialize_unchecked has returned after a read had found no value, and
\* an Acquire or SeqCst read has returned the written value
C27_Witness ==
    \E t \in Threads :
        /\ mode = "unchecked"
        /\ op[1] = "initialize_unchecked" /\ pc[1] = "idle" /\ ret[1] = ResUnit
        /\ op[t] = "as_ref_with_order" /\ IsAcquire(order[t]) /\ pc[t] = "idle"
        /\ ret[t] = ResSome(value) /\ value.x = Seven
        /\ calls = 3

(* ---- C28 ---- *)
\* C28: as_ref_with_order, get_raw_with_order, get_raw_mut_with_order,
\* is_some_with_order, is_none_with_order and state make one load of the tag:
\* no step of such a call changes the tag or the cell or takes a handle, the
\* call never goes round a loop, and its first step decides it. An accessor
\* returns Some exactly when the tag it loaded is SOME, and None for NONE and
\* for RESERVED; is_some_with_order answers true exactly when it loaded
\* SOME; state answers the tag it loaded; is_none_with_order never answers
\* true on SOME, so that is_some and is_none are never both true of a tag.
C28_SingleLoadReads ==
    /\ [](\A s \in {NONE, RESERVED, SOME} :
            /\ ~(is_some_with_order(s) /\ is_none_with_order(s))
            /\ ~(is_some_with_order(s) /\ with_order_is_none_with_order(s)))
    /\ [](\A t \in Threads : op[t] \in Accessors \cup Probes =>
            /\ pc[t] \in {"load", "probe", "deref", "idle"}
            /\ ~spun[t] /\ spins[t] = 0 /\ t \notin holders)
    /\ [][\A t \in Threads : (op[t] \in Accessors \cup Probes /\ pc'[t] # pc[t] /\ pc[t] # "idle") =>
            /\ state' = state /\ value' = value /\ live' = live /\ holders' = holders
            /\ pc[t] = "load" =>
                 IF state = SOME THEN pc'[t] = "deref"
                 ELSE pc'[t] = "idle" /\ ret'[t] = ResNone
            /\ pc[t] = "deref" => (pc'[t] = "idle" /\ ret'[t].kind = "Some")
            /\ pc[t] = "probe" =>
                 /\ pc'[t] = "idle"
                 /\ op[t] = "is_some_with_order" => (ret'[t] = ResTrue <=> state = SOME)
                 /\ op[t] = "is_some_with_order" => ret'[t] \in {ResTrue, ResFalse}
                 /\ op[t] = "is_none_with_order" => (ret'[t] = ResTrue => state # SOME)
                 /\ op[t] = "is_none_with_order" => (state = NONE => ret'[t] = ResTrue)
                 /\ op[t] = "state" => ret'[t] = ResState(state)]_vars

\* a state(order) call has answered State::Reserved and an accessor has
\* returned None while an initialize_if_none call is inside its transition
C28_Witness ==
    \E t, u \in Threads :
        /\ mode = "probes"
        /\ op[t] = "state" /\ pc[t] = "idle" /\ ret[t] = ResState(RESERVED)
        /\ op[u] = "initialize_if_none" /\ pc[u] \in {"body", "drop"}

(* ---- C29 ---- *)
\* C29: a call that misses changes nothing. The step by which
\* initialize_if_none finds the tag SOME returns false and leaves the tag,
\* the stored value and its liveness as they were; the step by which
\* update_if_some finds the tag NONE ends the call with its closure never
\* called; the step by which take_if finds the tag NONE returns None with
\* its predicate never called. None of the three panics, takes a handle or
\* writes the tag.
C29_MissChangesNothing ==
    [][\A t \in Threads :
        LET miss == \/ op[t] = "initialize_if_none" /\ pc[t] = "get" /\ state = SOME
                    \/ op[t] = "update_if_some" /\ pc[t] = "spin" /\ state = NONE
                    \/ op[t] = "take_if" /\ pc[t] = "tif_cas" /\ state = NONE
        IN  (miss /\ <<pc[t], spins[t], initial_state[t]>>' # <<pc[t], spins[t], initial_state[t]>>) =>
              /\ pc'[t] = "idle"
              /\ ret'[t] # ResPanic
              /\ fcalls[t] = 0
              /\ state' = state /\ value' = value /\ live' = live /\ holders' = holders
              /\ dropped' = dropped /\ returned' = returned
              /\ op[t] = "initialize_if_none" => ret'[t] = ResFalse
              /\ op[t] = "take_if" => ret'[t] = ResNone]_vars

\* on a slot that was constructed empty and never written, a take_if call
\* has returned None and an update_if_some call has returned
C29_Witness ==
    \E t, u \in Threads :
        /\ mode = "safe" /\ calls = 2 /\ state = NONE /\ ~live
        /\ op[t] = "take_if" /\ pc[t] = "idle" /\ ret[t] = ResNone
        /\ op[u] = "update_if_some" /\ pc[u] = "idle" /\ ret[u] = ResTrue

(* ---- C30 ---- *)
\* C30: insert(v). The step that writes the cell leaves v in it; entered
\* from SOME it drops the value the cell held, once, and hands it to nobody;
\* entered from NONE it drops nothing. The step that publishes leaves the
\* tag SOME with v still in the cell, and the call returns a reference. No
\* value is dropped twice, and a dropped value was never returned and is
\* not the one in the cell.
C30_InsertDropsOld ==
    /\ [](\A v \in BagToSet(dropped) :
            /\ CopiesIn(v, dropped) = 1
            /\ ~BagIn(v, returned)
            /\ ~(live /\ value = v))
    /\ [][\A t \in Threads : op[t] = "insert" =>
            /\ (pc[t] = "body" /\ pc'[t] # "body") =>
                 /\ pc'[t] = "drop" /\ holders = {t}
                 /\ value' = arg[t] /\ live'
                 /\ returned' = returned
                 /\ IF initial_state[t] = SOME
                    THEN live /\ dropped' = dropped (+) SetToBag({value})
                    ELSE ~live /\ dropped' = dropped
            /\ (pc[t] = "drop" /\ pc'[t] # "drop") =>
                 /\ pc'[t] = "idle" /\ ret'[t] = ResRef
                 /\ state' = SOME /\ value' = arg[t] /\ live'
                 /\ dropped' = dropped /\ returned' = returned]_vars

\* an insert that entered from SOME has returned: the value it found is
\* dropped, its own is in the cell and the tag is SOME
C30_Witness ==
    \E t \in Threads :
        /\ mode = "calm"
        /\ op[t] = "insert" /\ pc[t] = "idle" /\ ret[t] = ResRef
        /\ state = SOME /\ live /\ holders = {}
        /\ BagToSet(dropped) # {} /\ value \notin BagToSet(dropped)

(* ---- C31 ---- *)
\* the step of thread t that wins a compare_exchange into RESERVED
Enters(t) == t \notin holders /\ t \in holders'
\* the step of thread t that publishes a terminal tag
Publishes(t) == t \in holders /\ t \notin holders'
\* a step of thread t whose entering compare_exchange failed
FailsEntry(t, at) ==
    /\ pc[t] \in at /\ ~Enters(t)
    /\ <<pc[t], spins[t], spun[t], initial_state[t]>>' # <<pc[t], spins[t], spun[t], initial_state[t]>>

\* the orderings of the protocol, by their effect: the thread that enters
\* RESERVED has the cell's last write in its view, and a publication leaves
\* the tag carrying that write
OrderingsSynchronise ==
    /\ IsAcquire(HandleGetOrder) /\ IsAcquire(ORDER_LOAD)
    /\ IsRelease(HandleDropOrder) /\ IsRelease(ORDER_STORE)
    /\ [](holders \subseteq seen)
    /\ [][\A t \in Threads :
            /\ Enters(t) => t \in seen'
            /\ Publishes(t) => pub']_vars

\* C31 as stated: the entering compare_exchange is Acquire or stronger on
\* success and Relaxed on failure (a failed entry, take_if's too, leaves the
\* views as they were), the publishing one is Release or stronger, and the
\* winner of a transition sees the cell writes of the last publisher.
C31_FailureReadsRelaxed ==
    /\ OrderingsSynchronise
    /\ [][\A t \in Threads :
            FailsEntry(t, {"get", "spin", "mspin", "tif_cas"}) => seen' = seen]_vars

\* C31, amended: as above, the failure read being Relaxed in Handle::get,
\* Handle::spin_get and MutHandle::spin_get; the failed compare_exchange of
\* take_if reads with ORDER_LOAD (Acquire) and so may bring the last write
\* into the view of its thread.
C31_Orderings ==
    /\ OrderingsSynchronise
    /\ HandleFailureOrder = "Relaxed"
    /\ [][\A t \in Threads :
            /\ FailsEntry(t, {"get", "spin", "mspin"}) => seen' = seen
            /\ FailsEntry(t, {"tif_cas"}) => seen' = AcquireView(t, ORDER_LOAD)]_vars

\* thread t is inside the transition it won after another thread wrote the
\* cell and published the tag
C31_Witness ==
    \E t, u \in Threads :
        /\ mode = "orders" /\ calls = 2 /\ t # u
        /\ op[t] = "take_if" /\ pc[t] = "body" /\ holders = {t} /\ t \in seen
        /\ op[u] = "replace" /\ pc[u] = "idle" /\ ret[u].kind \in {"None", "Some"}
        /\ live /\ value.id >= 2

(* ---- C32 ---- *)
\* C32: update_if_some reports whether it updated. The step by which an
\* update_if_some call returns gives true exactly when the call entered from
\* SOME and called its closure once, and gives false when the call found the
\* tag NONE and did nothing.
C32_UpdateReports ==
    [][\A t \in Threads :
        (op[t] = "update_if_some" /\ pc[t] # "idle" /\ pc'[t] = "idle") =>
            /\ ret'[t] \in {ResTrue, ResFalse}
            /\ ret'[t] = ResTrue <=> (pc[t] = "drop" /\ initial_state[t] = SOME /\ fcalls[t] = 1)
            /\ (pc[t] = "spin" /\ state = NONE) => ret'[t] = ResFalse]_vars

(* ---- C33 ---- *)
\* C33: when f panics in a get_or_insert_with call that won NONE ->
\* RESERVED, nothing having been written into the cell, the unwinding of
\* the call does not publish SOME; and in no reachable state is the tag SOME
\* over a cell that holds no value.
C33_PanicNeverPublishesSome ==
    /\ [](state = SOME => live)
    /\ [][\A t \in Threads :
            (op[t] = "get_or_insert_with" /\ pc[t] = "unwind" /\ pc'[t] = "panicked" /\ ~live)
            => state' # SOME]_vars

(* ---- C34 ---- *)
\* C34: the tag is always NONE (0), RESERVED (1) or SOME (2). A step that
\* changes it either takes it from NONE or SOME to RESERVED, and is the
\* entering step of one thread, or takes it from RESERVED to NONE or SOME, and
\* is a step of the one thread that entered last; no step takes it from NONE
\* to SOME or from SOME to NONE.
C34_TransitionGraph ==
    /\ [](state \in {NONE, RESERVED, SOME} /\ NONE = 0 /\ RESERVED = 1 /\ SOME = 2)
    /\ [](state = RESERVED => Cardinality(holders) <= 1)
    /\ [][state' # state =>
            \/ /\ state \in {NONE, SOME} /\ state' = RESERVED
               /\ \E t \in Threads :
                    /\ holders = {} /\ holders' = {t}
                    /\ pc'[t] # pc[t]
            \/ /\ state = RESERVED /\ state' \in {NONE, SOME}
               /\ \E t \in Threads :
                    /\ holders = {t} /\ holders' = {}
                    /\ pc'[t] # pc[t]]_vars

\* on an option constructed some(v), a take has returned the value and then an
\* initialize_if_none has returned true: the tag went SOME -> RESERVED -> NONE
\* -> RESERVED -> SOME
C34_Witness ==
    \E t, u \in Threads :
        /\ mode = "concurrent" /\ ctor = some(InitialValue)
        /\ op[t] = "take" /\ pc[t] = "idle" /\ ret[t] = ResSome(InitialValue)
        /\ op[u] = "initialize_if_none" /\ pc[u] = "idle" /\ ret[u] = ResTrue
        /\ state = SOME /\ holders = {}

(* ---- C35 ---- *)
\* no call is running and no thread ended in a panic
Quiescent == \A t \in Threads : pc[t] = "idle"

\* C35: in every reachable state in which every invoked call has returned and
\* no closure has panicked, the tag is NONE or SOME and nobody holds it; and
\* the drop of the option, made when the threads have joined, does not reach
\* its panic branch unless a thread ended in a panic.
C35_QuiescentTag ==
    /\ Quiescent => (state \in {NONE, SOME} /\ holders = {})
    /\ owner = "panicked" => \E t \in Threads : pc[t] = "panicked"

\* both calls have returned, one of them a take that got the value, and the
\* option was dropped without a panic
C35_Witness ==
    /\ mode = "joined" /\ Quiescent /\ calls = MaxJoinedCalls
    /\ owner = "dropped"
    /\ \E t \in Threads : op[t] = "take" /\ ret[t].kind = "Some"
    /\ \E t \in Threads : op[t] \in {"replace", "initialize_if_none", "as_ref"}

(* ---- C36 ---- *)
\* the number of values of a bag that are the object `id`
RECURSIVE CopiesOfId(_, _, _)
CopiesOfId(b, id, vs) ==
    IF vs = {} THEN 0
    ELSE LET v == CHOOSE w \in vs : TRUE
         IN  (IF v.id = id THEN CopiesIn(v, b) ELSE 0) + CopiesOfId(b, id, vs \ {v})

\* where the object `id` is: handed back to callers, destroyed, in the cell,
\* or moved out of the cell into the output of a call that has yet to return
Accounted(id) ==
    CopiesOfId(returned, id, BagToSet(returned))
    + CopiesOfId(dropped, id, BagToSet(dropped))
    + (IF live /\ value.id = id THEN 1 ELSE 0)
    + Cardinality({t \in Threads : out[t].kind = "Some" /\ out[t].v.id = id})

\* the objects there can be: the v of some(v) and the arguments of the calls
ObjectIds == 1..(MaxOwnedCalls + 2)

\* C36: every value that was stored in the cell is accounted for exactly
\* once: no value is at once returned to two callers, dropped twice, or
\* returned and dropped or still in the cell; a value that was stored stays
\* accounted for in every later step; and when the option has been dropped
\* no value is left in the cell.
C36_ValueConservation ==
    /\ [](\A id \in ObjectIds : Accounted(id) <= 1)
    /\ [][\A id \in ObjectIds : Accounted(id) = 1 => Accounted(id)' = 1]_vars
    /\ [](owner # "alive" => ~live)

(* ---- C37 ---- *)
(* The reference: a plain Option<T>, as the object it holds (0: None, an   *)
(* id: Some of that object). The i-th call of the single thread passes the *)
(* object i + 1. A closure that panics leaves a plain Option as it was.    *)
OptionOfCtor == IF ctor.state = SOME THEN ctor.value.id ELSE 0

\* what the plain Option holds after the i-th call, completed as h, when it
\* held r before
OptionAfter(r, i, h) ==
    CASE h.op = "initialize_if_none" -> IF r = 0 THEN i + 1 ELSE r
      [] h.op = "take" -> 0
      [] h.op = "take_if" -> IF h.ret.kind = "Some" THEN 0 ELSE r
      [] h.op \in {"replace", "insert"} -> i + 1
      [] h.op = "get_or_insert_with" -> IF r = 0 /\ h.ret # ResPanic THEN i + 1 ELSE r
      [] OTHER -> r

\* whether h is a result of the i-th call on a plain Option holding r
OptionResult(r, i, h) ==
    CASE h.ret = ResPanic ->
              \/ h.op \in {"take_if", "update_if_some"} /\ r # 0
              \/ h.op = "get_or_insert_with" /\ r = 0
      [] h.op = "initialize_if_none" -> h.ret = ResBool(r = 0)
      [] h.op \in {"take", "replace"} ->
              IF r = 0 THEN h.ret = ResNone ELSE h.ret.kind = "Some" /\ h.ret.v.id = r
      [] h.op = "take_if" ->
              \/ h.ret = ResNone
              \/ r # 0 /\ h.ret.kind = "Some" /\ h.ret.v.id = r
      [] h.op \in {"insert", "get_or_insert_with"} -> h.ret = ResRef
      [] h.op = "update_if_some" -> h.ret \in {ResTrue, ResFalse}
      [] OTHER -> h.ret = IF r = 0 THEN ResNone ELSE ResRef

\* the plain Option after the first n calls of the history
RECURSIVE OptionAt(_)
OptionAt(n) == IF n = 0 THEN OptionOfCtor ELSE OptionAfter(OptionAt(n - 1), n, hist[n])

\* C37: every call completed by the single thread gave the result the same
\* call gives on a plain Option, and left the tag SOME exactly when the plain
\* Option is Some; between calls the cell holds the object the plain Option
\* holds. (The plain Option has no result for update_if_some: any bool is
\* accepted.)
C37_SequentialOption ==
    mode = "sequential" =>
        /\ \A n \in 1..Len(hist) :
              /\ OptionResult(OptionAt(n - 1), n, hist[n])
              /\ hist[n].state = SOME <=> OptionAt(n) # 0
        /\ (owner = "alive" /\ pc[1] \in {"idle", "panicked"}) =>
              IF OptionAt(Len(hist)) # 0
              THEN state = SOME /\ live /\ value.id = OptionAt(Len(hist))
              ELSE state = NONE /\ ~live

(* ---- C38 ---- *)
\* C38: on an option holding Some(v) on which only guarded reads (get_raw,
\* get_raw_mut, as_ref) and single-load reads run, every is_some_with_order
\* call returns true and every as_ref_with_order / get_raw_with_order call
\* returns Some(v), whatever the interleaving.
C38_ReadsInvisible ==
    \A t \in Threads :
        (mode = "readers" /\ pc[t] = "idle") =>
            /\ op[t] = "is_some_with_order" => ret[t] = ResTrue
            /\ op[t] \in {"as_ref_with_order", "get_raw_with_order"} => ret[t] = ResSome(InitialValue)

(* ---- C39 ---- *)
\* a call that works under a Handle or a MutHandle (take_if has none)
UnderHandle(t) == t \in holders /\ op[t] # "take_if"

\* C39: the step that drops the handle of thread t while the tag is RESERVED,
\* at the end of the call or while a panic unwinds it, stores exactly the
\* handle's success_state into the tag, releases the slot and leaves the cell
\* as it is. The success_state of a handle is NONE for take and SOME for
\* initialize_if_none, update_if_some, get_raw, get_raw_mut, as_ref and for
\* both arms of replace, insert and get_or_insert_with.
C39_GuardPublication ==
    /\ [](\A t \in Threads : UnderHandle(t) =>
            /\ state = RESERVED
            /\ success_state[t] = (IF op[t] = "take" THEN NONE ELSE SOME)
            /\ initial_state[t] = NONE =>
                 op[t] \in {"initialize_if_none", "replace", "insert", "get_or_insert_with"})
    /\ [][\A t \in Threads :
            (UnderHandle(t) /\ pc[t] \in {"drop", "unwind"} /\ pc'[t] # pc[t]) =>
                /\ state' = success_state[t]
                /\ holders' = holders \ {t}
                /\ value' = value /\ live' = live
                /\ pc'[t] \in {"idle", "panicked"}]_vars

\* on an option constructed none(), the handle of an initialize_if_none has
\* published SOME and then the handle of a take has published NONE
C39_Witness ==
    \E t, u \in Threads :
        /\ mode = "concurrent" /\ ctor = none
        /\ op[t] = "initialize_if_none" /\ pc[t] = "idle" /\ ret[t] = ResTrue
        /\ op[u] = "take" /\ pc[u] = "idle" /\ ret[u].kind = "Some"
        /\ state = NONE /\ ~live /\ holders = {}

====
